---- MODULE Spec2Model ----
(***************************************************************************)
(* midi-cleaner: the tick-domain note-event pipeline (utils/midi_helpers,  *)
(* the processors), its orchestrator (processors/pipeline.py), the auto    *)
(* tuner (optimizers/auto_tuner.py), the advisory service wrapper          *)
(* (llm/guidance.py) and the tuning-run registry of the web layer          *)
(* (app.py).                                                               *)
(*                                                                         *)
(* A track is a sequence of messages with delta times, as mido exposes it. *)
(* A message is a record; fields a message type does not carry are 0.      *)
(***************************************************************************)
EXTENDS Integers, Sequences, FiniteSets, TLC

\* ------------------------------------------------------------------------
\* Generic helpers (Python built-ins used by the code)
\* ------------------------------------------------------------------------

Max(a, b) == IF a >= b THEN a ELSE b

Min(a, b) == IF a <= b THEN a ELSE b

Abs(x) == IF x < 0 THEN -x ELSE x

Range(s) == {s[i] : i \in DOMAIN s}

\* tuple comparison of Python on 2-tuples of integers
LexLess(a, b) == a[1] < b[1] \/ (a[1] = b[1] /\ a[2] < b[2])

\* list.sort / sorted with a key: stable, ascending. k[i] is the key of s[i].
SortByKey(s, k) ==
    LET n == Len(s)
        rank(i) == Cardinality({j \in 1..n : LexLess(k[j], k[i])
                                             \/ (k[j] = k[i] /\ j < i)}) + 1
    IN  [p \in 1..n |-> s[CHOOSE i \in 1..n : rank(i) = p]]

\* the distinct values of ks in order of first appearance (dict insertion order)
FirstKeys(ks) ==
    LET idx == {i \in 1..Len(ks) : \A j \in 1..(i-1) : ks[j] # ks[i]}
        pos(i) == Cardinality({j \in idx : j < i}) + 1
    IN  [p \in 1..Cardinality(idx) |-> ks[CHOOSE i \in idx : pos(i) = p]]

\* concatenation of a sequence of sequences
RECURSIVE Flatten(_)
Flatten(ss) == IF ss = <<>> THEN <<>> ELSE Head(ss) \o Flatten(Tail(ss))

\* sum of f over 1..Len(f)
RECURSIVE SumSeq(_)
SumSeq(s) == IF s = <<>> THEN 0 ELSE Head(s) + SumSeq(Tail(s))

\* Python 3 round() on the rational num/den (den > 0): nearest integer, a tie
\* going to the even neighbour
PyRound(num, den) ==
    LET q == num \div den
        r == num % den
    IN  IF 2 * r < den THEN q
        ELSE IF 2 * r > den THEN q + 1
        ELSE IF q % 2 = 0 THEN q ELSE q + 1

\* ------------------------------------------------------------------------
\* Messages (mido.Message / mido.MetaMessage)
\* ------------------------------------------------------------------------

MetaTypes == {"set_tempo", "time_signature", "track_name", "instrument_name",
              "key_signature", "end_of_track"}

is_meta(msg) == msg.type \in MetaTypes

Message(type, channel, note, velocity, time) ==
    [type |-> type, time |-> time, channel |-> channel, note |-> note,
     velocity |-> velocity, control |-> 0, tempo |-> 0,
     numerator |-> 0, denominator |-> 0]

ControlChange(channel, control, time) ==
    [type |-> "control_change", time |-> time, channel |-> channel, note |-> 0,
     velocity |-> 0, control |-> control, tempo |-> 0,
     numerator |-> 0, denominator |-> 0]

MetaMessage(type, time) ==
    [type |-> type, time |-> time, channel |-> 0, note |-> 0,
     velocity |-> 0, control |-> 0, tempo |-> 0,
     numerator |-> 0, denominator |-> 0]

SetTempo(tempo, time) == [MetaMessage("set_tempo", time) EXCEPT !.tempo = tempo]

TimeSignature(num, den, time) ==
    [MetaMessage("time_signature", time) EXCEPT !.numerator = num,
                                                !.denominator = den]

\* msg.copy(time=t)
CopyTime(msg, t) == [msg EXCEPT !.time = t]

\* a channel message is one that has a channel attribute
has_channel(msg) == ~is_meta(msg)

IsNoteOn(msg) == msg.type = "note_on" /\ msg.velocity > 0

IsNoteOff(msg) ==
    msg.type = "note_off" \/ (msg.type = "note_on" /\ msg.velocity = 0)

\* ------------------------------------------------------------------------
\* utils/midi_helpers.py
\* ------------------------------------------------------------------------

to_absolute_time(track) ==
    LET abs_time[i \in 0..Len(track)] ==
            IF i = 0 THEN 0 ELSE abs_time[i - 1] + track[i].time
    IN  [i \in 1..Len(track) |-> <<abs_time[i], track[i]>>]

to_delta_time(abs_messages) ==
    [i \in 1..Len(abs_messages) |->
        LET prev_time == IF i = 1 THEN 0 ELSE abs_messages[i - 1][1]
        IN  CopyTime(abs_messages[i][2], Max(0, abs_messages[i][1] - prev_time))]

Note(pitch, channel, velocity, onset, offset) ==
    [pitch |-> pitch, channel |-> channel, velocity |-> velocity,
     onset |-> onset, offset |-> offset]

OnsetPitchKeys(notes) == [i \in 1..Len(notes) |-> <<notes[i].onset, notes[i].pitch>>]

\* pairs.sort(key=lambda n: (n['onset'], n['pitch']))
SortOnsetPitch(notes) == SortByKey(notes, OnsetPitchKeys(notes))

\* a pairing step that closes the note-on opened last instead of the oldest
PairStep_lifo(st, abs_time, msg) ==
    LET key == <<msg.channel, msg.note>>
        open == {i \in 1..Len(st.active) : st.active[i].key = key}
    IN  IF IsNoteOn(msg)
        THEN [st EXCEPT !.active = Append(@, [key |-> key, onset |-> abs_time,
                                              velocity |-> msg.velocity]),
                        !.keys = IF \E i \in 1..Len(@) : @[i] = key
                                 THEN @ ELSE Append(@, key)]
        ELSE IF IsNoteOff(msg) /\ open # {}
        THEN LET last == CHOOSE i \in open : \A j \in open : i >= j
                 o == st.active[last]
             IN [st EXCEPT !.active = [p \in 1..(Len(@) - 1) |->
                                          IF p < last THEN @[p] ELSE @[p + 1]],
                           !.pairs = Append(@, Note(msg.note, key[1], o.velocity,
                                                    o.onset, abs_time))]
        ELSE st

\* One step of the pairing loop. st.active is the list of open note-ons in
\* the order they were opened, st.keys the (channel, pitch) keys in the order
\* they entered the dict, st.pairs the closed notes.
PairStep(st, abs_time, msg) ==
    LET key == <<msg.channel, msg.note>>
        open == {i \in 1..Len(st.active) : st.active[i].key = key}
    IN  IF IsNoteOn(msg)
        THEN [st EXCEPT !.active = Append(@, [key |-> key, onset |-> abs_time,
                                              velocity |-> msg.velocity]),
                        !.keys = IF \E i \in 1..Len(@) : @[i] = key
                                 THEN @ ELSE Append(@, key)]
        ELSE IF IsNoteOff(msg) /\ open # {}
        THEN LET first == CHOOSE i \in open : \A j \in open : i <= j
                 o == st.active[first]
             IN [st EXCEPT !.active = [p \in 1..(Len(@) - 1) |->
                                          IF p < first THEN @[p] ELSE @[p + 1]],
                           !.pairs = Append(@, Note(msg.note, key[1], o.velocity,
                                                    o.onset, abs_time))]
        ELSE st

extract_note_pairs(track) ==
    LET abs_msgs == to_absolute_time(track)
        n == Len(abs_msgs)
        st[i \in 0..n] ==
            IF i = 0 THEN [active |-> <<>>, keys |-> <<>>, pairs |-> <<>>]
            ELSE PairStep(st[i - 1], abs_msgs[i][1], abs_msgs[i][2])
        fin == st[n]
        last_time == abs_msgs[n][1]
        \* orphaned note-ons, dict order of the keys, FIFO inside a key
        orphansOf(key) ==
            LET sel == SelectSeq(fin.active, LAMBDA o : o.key = key)
            IN  [i \in 1..Len(sel) |->
                    Note(key[2], key[1], sel[i].velocity, sel[i].onset, last_time)]
        orphans == Flatten([i \in 1..Len(fin.keys) |-> orphansOf(fin.keys[i])])
    IN  IF n = 0 THEN <<>> ELSE SortOnsetPitch(fin.pairs \o orphans)

extract_non_note_messages(track) ==
    SelectSeq(to_absolute_time(track),
              LAMBDA e : e[2].type \notin {"note_on", "note_off"})

\* sort_key with the note-on and note-off priorities exchanged
sort_key_order_onfirst(msg) ==
    IF is_meta(msg) THEN 0
    ELSE IF IsNoteOff(msg) THEN 3
    ELSE IF msg.type = "note_on" THEN 1
    ELSE 2

\* the same-tick priority of rebuild_track_from_pairs.sort_key
sort_key_order(msg) ==
    IF is_meta(msg) THEN 0
    ELSE IF IsNoteOff(msg) THEN 1
    ELSE IF msg.type = "note_on" THEN 3
    ELSE 2

sort_key(item) == <<item[1], sort_key_order(item[2])>>

\* channel = -1 stands for channel=None
rebuild_track_from_pairs(note_pairs, non_note_abs, channel) ==
    LET chOf(note) == IF channel # -1 THEN channel ELSE note.channel
        noteEvents == Flatten([i \in 1..Len(note_pairs) |->
            << <<note_pairs[i].onset,
                 Message("note_on", chOf(note_pairs[i]), note_pairs[i].pitch,
                         note_pairs[i].velocity, 0)>>,
               <<note_pairs[i].offset,
                 Message("note_off", chOf(note_pairs[i]), note_pairs[i].pitch,
                         0, 0)>> >>])
        events == noteEvents \o non_note_abs
        sorted == SortByKey(events, [i \in 1..Len(events) |-> sort_key(events[i])])
    IN  to_delta_time(sorted)

get_time_signature(track) ==
    LET idx == {i \in 1..Len(track) : track[i].type = "time_signature"}
    IN  IF idx = {} THEN <<4, 4>>
        ELSE LET f == CHOOSE i \in idx : \A j \in idx : i <= j
             IN  <<track[f].numerator, track[f].denominator>>

calculate_bar_ticks(ticks_per_beat, time_sig) ==
    (ticks_per_beat * time_sig[1] * 4) \div time_sig[2]

\* number of note-on messages with velocity > 0 (telemetry.count_notes)
count_notes(track) == Cardinality({i \in 1..Len(track) : IsNoteOn(track[i])})

\* ------------------------------------------------------------------------
\* Configuration (config.py). A config is a record; a nested dict is a
\* nested record. Get is dict.get(key, default).
\* ------------------------------------------------------------------------

Get(d, k, default) == IF k \in DOMAIN d THEN d[k] ELSE default

\* triplet_tolerance is kept in hundredths (0.15 is 15)
DEFAULT_CONFIG ==
    [tempo_deduplicator |-> [enabled |-> TRUE],
     merge_voices |-> TRUE,
     remove_overlaps |-> TRUE,
     remove_triplets |-> TRUE,
     triplet_tolerance |-> 15,
     quantize |-> TRUE,
     quantize_grid |-> "eighth",
     remove_cc |-> TRUE,
     cc_numbers |-> {64, 68},
     pitch_cluster |-> [enabled |-> TRUE, time_window_ticks |-> 20,
                        pitch_threshold |-> 1],
     filter_noise |-> TRUE,
     min_duration_ticks |-> 120,
     min_velocity |-> 20,
     same_pitch_overlap_resolver |-> [enabled |-> TRUE],
     start_bar |-> 1,
     merge_tracks |-> [enabled |-> FALSE, include_cc |-> FALSE,
                       cc_whitelist |-> {64, 68}],
     track_overrides |-> <<>>]

\* GRID_DIVISORS as the pair <<p, q>> with ticks_per_beat / divisor =
\* ticks_per_beat * p / q
GRID_DIVISORS(name) ==
    CASE name = "whole" -> <<4, 1>>
      [] name = "half" -> <<2, 1>>
      [] name = "quarter" -> <<1, 1>>
      [] name = "eighth" -> <<1, 2>>
      [] name = "sixteenth" -> <<1, 4>>
      [] name = "thirtysecond" -> <<1, 8>>
      [] OTHER -> <<1, 2>>

\* ------------------------------------------------------------------------
\* processors/tempo_deduplicator.py.  last_tempo = -1 stands for None.
\* ------------------------------------------------------------------------

\* a deduplicator that drops every tempo value it has seen before
TempoDedupFiltered_seen(abs_msgs) ==
    LET n == Len(abs_msgs)
        seenBefore(i) == \E j \in 1..(i - 1) :
                            /\ abs_msgs[j][2].type = "set_tempo"
                            /\ abs_msgs[j][2].tempo = abs_msgs[i][2].tempo
        idx == {i \in 1..n : ~(abs_msgs[i][2].type = "set_tempo" /\ seenBefore(i))}
        nth(p) == CHOOSE i \in idx : Cardinality({j \in idx : j < i}) = p - 1
    IN  [p \in 1..Cardinality(idx) |-> abs_msgs[nth(p)]]

TempoDedupFiltered(abs_msgs) ==
    LET n == Len(abs_msgs)
        st[i \in 0..n] ==
            IF i = 0 THEN [last_tempo |-> -1, filtered |-> <<>>]
            ELSE LET msg == abs_msgs[i][2]
                     p == st[i - 1]
                 IN  IF msg.type = "set_tempo"
                     THEN IF msg.tempo = p.last_tempo THEN p
                          ELSE [last_tempo |-> msg.tempo,
                                filtered |-> Append(p.filtered, abs_msgs[i])]
                     ELSE [p EXCEPT !.filtered = Append(@, abs_msgs[i])]
    IN  st[n].filtered

TempoDeduplicator(config, track) ==
    IF ~Get(Get(config, "tempo_deduplicator", <<>>), "enabled", TRUE)
    THEN track
    ELSE to_delta_time(TempoDedupFiltered(to_absolute_time(track)))

\* ------------------------------------------------------------------------
\* processors/pitch_cluster.py
\* ------------------------------------------------------------------------

\* min(cluster, key=_key): the first element with the smallest key
\* (-velocity, -duration, pitch_dist)
Less3(a, b) ==
    \/ a[1] < b[1]
    \/ (a[1] = b[1] /\ a[2] < b[2])
    \/ (a[1] = b[1] /\ a[2] = b[2] /\ a[3] < b[3])

_select_winner(cluster) ==
    LET pk == [i \in 1..Len(cluster) |-> <<cluster[i].pitch, 0>>]
        pitches == SortByKey([i \in 1..Len(cluster) |-> cluster[i].pitch], pk)
        median_pitch == pitches[(Len(pitches) \div 2) + 1]
        _key(n) == <<-n.velocity, -(n.offset - n.onset), Abs(n.pitch - median_pitch)>>
        w == CHOOSE i \in 1..Len(cluster) :
                /\ \A j \in 1..Len(cluster) : ~Less3(_key(cluster[j]), _key(cluster[i]))
                /\ \A j \in 1..(i - 1) : _key(cluster[j]) # _key(cluster[i])
    IN  cluster[w]

_cluster_channel(notes, time_window, pitch_threshold) ==
    LET sorted_notes == SortOnsetPitch(notes)
        total == Len(sorted_notes)
        bisect_left(x) == Cardinality({j \in 1..total : sorted_notes[j].onset < x})
        bisect_right(x) == Cardinality({j \in 1..total : sorted_notes[j].onset <= x})
        st[i \in 0..total] ==
            IF i = 0 THEN [visited |-> {}, result |-> <<>>]
            ELSE LET p == st[i - 1]
                     seed == sorted_notes[i]
                     lo == bisect_left(seed.onset - time_window)
                     hi == bisect_right(seed.onset + time_window)
                     cluster_idx == {j \in (lo + 1)..hi :
                                        /\ j \notin p.visited
                                        /\ Abs(sorted_notes[j].pitch - seed.pitch)
                                              <= pitch_threshold}
                     cluster == SelectSeq([j \in 1..total |-> [n |-> sorted_notes[j], j |-> j]],
                                          LAMBDA e : e.j \in cluster_idx)
                 IN  IF i \in p.visited THEN p
                     ELSE [visited |-> p.visited \cup cluster_idx,
                           result |-> Append(p.result,
                               IF Cardinality(cluster_idx) = 1 THEN seed
                               ELSE _select_winner([c \in 1..Len(cluster) |-> cluster[c].n]))]
    IN  st[total].result

PitchClusterProcessor(config, track) ==
    LET cfg == Get(config, "pitch_cluster", <<>>)
        note_pairs == extract_note_pairs(track)
        non_notes == extract_non_note_messages(track)
        chans == FirstKeys([i \in 1..Len(note_pairs) |-> note_pairs[i].channel])
        result == Flatten([c \in 1..Len(chans) |->
                     _cluster_channel(SelectSeq(note_pairs, LAMBDA n : n.channel = chans[c]),
                                      Get(cfg, "time_window_ticks", 80),
                                      Get(cfg, "pitch_threshold", 1))])
    IN  IF ~Get(cfg, "enabled", TRUE) THEN track
        ELSE IF note_pairs = <<>> THEN track
        ELSE rebuild_track_from_pairs(SortOnsetPitch(result), non_notes, -1)

\* ------------------------------------------------------------------------
\* processors/voice_merger.py
\* ------------------------------------------------------------------------

\* a primary channel counted over the note-on events of velocity > 0 only
_find_primary_channel_ons(track) ==
    LET idx == {i \in 1..Len(track) : track[i].type = "note_on" /\ track[i].velocity > 0}
        count(c) == Cardinality({i \in idx : track[i].channel = c})
        firstAt(c) == CHOOSE i \in idx : track[i].channel = c
                          /\ \A j \in idx : track[j].channel = c => i <= j
        chans == {track[i].channel : i \in idx}
    IN  IF idx = {} THEN 0
        ELSE CHOOSE c \in chans : \A d \in chans :
                \/ count(c) > count(d)
                \/ (count(c) = count(d) /\ firstAt(c) <= firstAt(d))

\* Counter(...).most_common(1): the largest count, the first inserted on a tie
_find_primary_channel(track) ==
    LET idx == {i \in 1..Len(track) : track[i].type \in {"note_on", "note_off"}}
        count(c) == Cardinality({i \in idx : track[i].channel = c})
        firstAt(c) == CHOOSE i \in idx : track[i].channel = c
                          /\ \A j \in idx : track[j].channel = c => i <= j
        chans == {track[i].channel : i \in idx}
    IN  IF idx = {} THEN 0
        ELSE CHOOSE c \in chans : \A d \in chans :
                \/ count(c) > count(d)
                \/ (count(c) = count(d) /\ firstAt(c) <= firstAt(d))

\* the sweep of _resolve_overlaps over one (channel, pitch) group, already
\* sorted by onset
MergeSweep(notes) ==
    LET n == Len(notes)
        st[i \in 1..n] ==
            IF i = 1 THEN [current |-> notes[1], merged |-> <<>>]
            ELSE LET p == st[i - 1]
                     next_note == notes[i]
                 IN  IF next_note.onset < p.current.offset
                     THEN [p EXCEPT !.current.offset = Max(@, next_note.offset),
                                    !.current.velocity = Max(@, next_note.velocity)]
                     ELSE [current |-> next_note,
                           merged |-> Append(p.merged, p.current)]
    IN  Append(st[n].merged, st[n].current)

_resolve_overlaps(note_pairs) ==
    LET keys == FirstKeys([i \in 1..Len(note_pairs) |->
                              <<note_pairs[i].channel, note_pairs[i].pitch>>])
        group(k) == SelectSeq(note_pairs, LAMBDA n : <<n.channel, n.pitch>> = k)
        byOnset(g) == SortByKey(g, [i \in 1..Len(g) |-> <<g[i].onset, 0>>])
        merged == Flatten([k \in 1..Len(keys) |-> MergeSweep(byOnset(group(keys[k])))])
    IN  SortOnsetPitch(merged)

_align_chord_durations(note_pairs) ==
    LET chord(n) == SelectSeq(note_pairs, LAMBDA m : m.onset = n.onset)
        durations(n) == {m.offset - m.onset : m \in Range(chord(n))}
        shortest(n) == CHOOSE d \in durations(n) : \A e \in durations(n) : d <= e
        aligned == [i \in 1..Len(note_pairs) |->
                      IF Cardinality(durations(note_pairs[i])) > 1
                      THEN [note_pairs[i] EXCEPT !.offset = note_pairs[i].onset
                                                   + shortest(note_pairs[i])]
                      ELSE note_pairs[i]]
        \* for onset, notes in sorted(by_onset.items()): result.extend(notes)
        result == SortByKey(aligned, [i \in 1..Len(aligned) |-> <<aligned[i].onset, 0>>])
    IN  SortOnsetPitch(result)

VoiceMerger(config, track) ==
    LET primary_channel == _find_primary_channel(track)
        note_pairs == extract_note_pairs(track)
        non_notes == extract_non_note_messages(track)
        reassigned == [i \in 1..Len(note_pairs) |->
                          [note_pairs[i] EXCEPT !.channel = primary_channel]]
        resolved == IF Get(config, "remove_overlaps", TRUE)
                    THEN _resolve_overlaps(reassigned) ELSE reassigned
        aligned == _align_chord_durations(resolved)
        fixed_non_notes == [i \in 1..Len(non_notes) |->
            IF has_channel(non_notes[i][2])
            THEN <<non_notes[i][1], [non_notes[i][2] EXCEPT !.channel = primary_channel]>>
            ELSE non_notes[i]]
    IN  IF ~Get(config, "merge_voices", TRUE) THEN track
        ELSE IF note_pairs = <<>> THEN track
        ELSE rebuild_track_from_pairs(aligned, fixed_non_notes, primary_channel)

\* ------------------------------------------------------------------------
\* processors/cc_filter.py
\* ------------------------------------------------------------------------

_should_remove(msg, cc_numbers) ==
    msg.type = "control_change" /\ msg.control \in cc_numbers

CCFilter(config, track) ==
    LET cc_numbers == Get(config, "cc_numbers", {64, 68})
    IN  IF ~Get(config, "remove_cc", TRUE) \/ cc_numbers = {} THEN track
        ELSE to_delta_time(SelectSeq(to_absolute_time(track),
                               LAMBDA e : ~_should_remove(e[2], cc_numbers)))

\* ------------------------------------------------------------------------
\* processors/triplet_remover.py.  Durations are compared as exact
\* rationals: the reference is ticks_per_beat * a / b, the tolerance is in
\* hundredths.
\* ------------------------------------------------------------------------

_get_triplet_durations == << <<4, 3>>, <<2, 3>>, <<1, 3>>, <<1, 6>> >>

_is_triplet(duration, tpb, tolerance) ==
    \E r \in Range(_get_triplet_durations) :
        /\ tpb * r[1] > 0
        /\ 100 * Abs(duration * r[2] - tpb * r[1]) <= tolerance * tpb * r[1]

TripletRemover(config, track, tpb) ==
    LET tolerance == Get(config, "triplet_tolerance", 15)
        note_pairs == extract_note_pairs(track)
        non_notes == extract_non_note_messages(track)
        eighth_ticks == PyRound(tpb, 2)
        converted == [i \in 1..Len(note_pairs) |->
            IF _is_triplet(note_pairs[i].offset - note_pairs[i].onset, tpb, tolerance)
            THEN [note_pairs[i] EXCEPT !.offset = note_pairs[i].onset + eighth_ticks]
            ELSE note_pairs[i]]
    IN  IF ~Get(config, "remove_triplets", TRUE) THEN track
        ELSE IF note_pairs = <<>> THEN track
        ELSE rebuild_track_from_pairs(converted, non_notes, -1)

\* ------------------------------------------------------------------------
\* processors/quantizer.py.  grid_ticks is the rational tpb * g[1] / g[2].
\* ------------------------------------------------------------------------

_snap_to_grid(tick, tpb, g) ==
    LET grid_int == PyRound(tpb * g[1], g[2])
    IN  PyRound(tick, grid_int) * grid_int

_quantize_duration(duration, tpb, g) ==
    LET grid_int == PyRound(tpb * g[1], g[2])
        units == Max(1, PyRound(duration * g[2], tpb * g[1]))
    IN  units * grid_int

\* QuantizeNote without the clip at the end of the bar
QuantizeNote_unclipped(note, tpb, g, bar_ticks) ==
    LET quantized_onset == _snap_to_grid(note.onset, tpb, g)
        quantized_duration == _quantize_duration(note.offset - note.onset, tpb, g)
        quantized_offset == quantized_onset + quantized_duration
        min_dur == Max(1, PyRound(tpb * g[1], g[2]))
    IN  IF quantized_offset - quantized_onset < min_dur THEN <<>>
        ELSE << [note EXCEPT !.onset = quantized_onset,
                             !.offset = quantized_offset] >>

\* the note as quantized, or the empty sequence when it is skipped
QuantizeNote(note, tpb, g, bar_ticks) ==
    LET quantized_onset == _snap_to_grid(note.onset, tpb, g)
        quantized_duration == _quantize_duration(note.offset - note.onset, tpb, g)
        bar_start == (quantized_onset \div bar_ticks) * bar_ticks
        bar_end == bar_start + bar_ticks
        quantized_offset == Min(quantized_onset + quantized_duration, bar_end)
        min_dur == Max(1, PyRound(tpb * g[1], g[2]))
    IN  IF quantized_offset - quantized_onset < min_dur THEN <<>>
        ELSE << [note EXCEPT !.onset = quantized_onset,
                             !.offset = quantized_offset] >>

Quantizer(config, track, tpb, time_sig) ==
    LET g == GRID_DIVISORS(Get(config, "quantize_grid", "eighth"))
        note_pairs == extract_note_pairs(track)
        non_notes == extract_non_note_messages(track)
        bar_ticks == calculate_bar_ticks(tpb, time_sig)
        quantized == Flatten([i \in 1..Len(note_pairs) |->
                                 QuantizeNote(note_pairs[i], tpb, g, bar_ticks)])
    IN  IF ~Get(config, "quantize", TRUE) THEN track
        ELSE IF note_pairs = <<>> THEN track
        ELSE rebuild_track_from_pairs(quantized, non_notes, -1)

\* ------------------------------------------------------------------------
\* processors/noise_filter.py
\* ------------------------------------------------------------------------

_keep_note(note, min_duration, min_velocity) ==
    /\ ~(note.offset - note.onset < min_duration)
    /\ ~(note.velocity < min_velocity)

\* the noise filter without the test of its enable flag
NoiseFilter_always(config, track) ==
    LET note_pairs == extract_note_pairs(track)
        non_notes == extract_non_note_messages(track)
        filtered == SelectSeq(note_pairs,
                        LAMBDA n : _keep_note(n, Get(config, "min_duration_ticks", 120),
                                              Get(config, "min_velocity", 20)))
    IN  IF note_pairs = <<>> THEN track
        ELSE rebuild_track_from_pairs(filtered, non_notes, -1)

NoiseFilter(config, track) ==
    LET note_pairs == extract_note_pairs(track)
        non_notes == extract_non_note_messages(track)
        filtered == SelectSeq(note_pairs,
                        LAMBDA n : _keep_note(n, Get(config, "min_duration_ticks", 120),
                                              Get(config, "min_velocity", 20)))
    IN  IF ~Get(config, "filter_noise", TRUE) THEN track
        ELSE IF note_pairs = <<>> THEN track
        ELSE rebuild_track_from_pairs(filtered, non_notes, -1)

\* ------------------------------------------------------------------------
\* processors/same_pitch_overlap_resolver.py
\* ------------------------------------------------------------------------

_pick_winner(a, b) ==
    LET dur_a == a.offset - a.onset
        dur_b == b.offset - b.onset
    IN  IF dur_a # dur_b THEN (IF dur_a > dur_b THEN a ELSE b)
        ELSE IF a.velocity # b.velocity THEN (IF a.velocity > b.velocity THEN a ELSE b)
        ELSE IF a.onset <= b.onset THEN a ELSE b

_resolve_group(notes) ==
    LET sorted_notes == SortByKey(notes, [i \in 1..Len(notes) |->
                                             <<notes[i].onset, notes[i].offset>>])
        n == Len(sorted_notes)
        kept[i \in 0..n] ==
            IF i = 0 THEN <<>>
            ELSE LET p == kept[i - 1]
                     note == sorted_notes[i]
                 IN  IF p = <<>> THEN <<note>>
                     ELSE IF note.onset < p[Len(p)].offset
                     THEN [p EXCEPT ![Len(p)] = _pick_winner(p[Len(p)], note)]
                     ELSE Append(p, note)
    IN  kept[n]

SamePitchOverlapResolver(config, track) ==
    LET cfg == Get(config, "same_pitch_overlap_resolver", <<>>)
        note_pairs == extract_note_pairs(track)
        non_notes == extract_non_note_messages(track)
        keys == FirstKeys([i \in 1..Len(note_pairs) |->
                              <<note_pairs[i].channel, note_pairs[i].pitch>>])
        result == Flatten([k \in 1..Len(keys) |->
                     _resolve_group(SelectSeq(note_pairs,
                         LAMBDA n : <<n.channel, n.pitch>> = keys[k]))])
    IN  IF ~Get(cfg, "enabled", TRUE) THEN track
        ELSE IF note_pairs = <<>> THEN track
        ELSE rebuild_track_from_pairs(SortOnsetPitch(result), non_notes, -1)

\* ------------------------------------------------------------------------
\* processors/merge_tracks_to_single.py.  A file is a record
\* [type, ticks_per_beat, tracks].
\* ------------------------------------------------------------------------

_should_include(msg, include_cc, cc_whitelist) ==
    IF is_meta(msg) THEN TRUE
    ELSE IF msg.type \in {"note_on", "note_off"} THEN TRUE
    ELSE IF msg.type = "control_change"
         THEN IF ~include_cc THEN FALSE
              ELSE IF cc_whitelist = {} THEN TRUE
              ELSE msg.control \in cc_whitelist
    ELSE TRUE

\* MergeTracksToSingleTrack._sort_key
_sort_key(item) ==
    <<item[1], IF is_meta(item[2]) THEN 0
               ELSE IF IsNoteOff(item[2]) THEN 1
               ELSE IF item[2].type = "note_on" THEN 3
               ELSE 2>>

MergeTracksToSingleTrack(config, midi_file) ==
    LET cfg == Get(config, "merge_tracks", <<>>)
        include_cc == Get(cfg, "include_cc", FALSE)
        cc_whitelist == Get(cfg, "cc_whitelist", {64, 68})
        all_events == Flatten([t \in 1..Len(midi_file.tracks) |->
            SelectSeq(to_absolute_time(midi_file.tracks[t]),
                      LAMBDA e : /\ e[2].type # "end_of_track"
                                 /\ _should_include(e[2], include_cc, cc_whitelist))])
        sorted == SortByKey(all_events,
                            [i \in 1..Len(all_events) |-> _sort_key(all_events[i])])
        new_track == Append(to_delta_time(sorted), MetaMessage("end_of_track", 0))
    IN  IF ~Get(cfg, "enabled", FALSE) THEN midi_file
        ELSE [type |-> 0, ticks_per_beat |-> midi_file.ticks_per_beat,
              tracks |-> <<new_track>>]

\* ------------------------------------------------------------------------
\* processors/pipeline.py: helpers of ProcessingPipeline
\* ------------------------------------------------------------------------

\* the conductor-only set without time_signature
CONDUCTOR_ONLY_META_tempo == {"set_tempo"}

CONDUCTOR_ONLY_META == {"set_tempo", "time_signature"}

\* get_track_info(track)['has_notes']
has_notes(track) == count_notes(track) > 0

_strip_conductor_meta(track) ==
    LET kept == SelectSeq(to_absolute_time(track),
                    LAMBDA e : ~(is_meta(e[2]) /\ e[2].type \in CONDUCTOR_ONLY_META))
        new_track == to_delta_time(kept)
    IN  IF new_track = <<>> \/ new_track[Len(new_track)].type # "end_of_track"
        THEN Append(new_track, MetaMessage("end_of_track", 0))
        ELSE new_track

\* dict(self.config) updated with the override of the track, if there is one;
\* track_overrides maps a track index to a partial config
_get_track_config(cfg, track_idx) ==
    LET overrides == Get(cfg, "track_overrides", <<>>)
    IN  IF track_idx \in DOMAIN overrides
        THEN [k \in DOMAIN cfg \cup DOMAIN overrides[track_idx] |->
                 IF k \in DOMAIN overrides[track_idx]
                 THEN overrides[track_idx][k] ELSE cfg[k]]
        ELSE cfg

DuplicatedMeta == {"track_name", "instrument_name", "key_signature"}

\* returns <<before, after>>
_split_track_at_tick(track, split_tick) ==
    LET abs == to_absolute_time(track)
        n == Len(track)
        st[i \in 0..n] ==
            IF i = 0 THEN [before |-> <<>>, after |-> <<>>,
                           before_time |-> 0, after_time |-> 0]
            ELSE LET p == st[i - 1]
                     abs_time == abs[i][1]
                     msg == abs[i][2]
                 IN  IF is_meta(msg) /\ msg.type \in DuplicatedMeta
                     THEN [p EXCEPT
                             !.before = Append(@, CopyTime(msg, Max(0, abs_time - p.before_time))),
                             !.before_time = abs_time,
                             !.after = Append(@, CopyTime(msg, 0))]
                     ELSE IF abs_time < split_tick
                     THEN [p EXCEPT
                             !.before = Append(@, CopyTime(msg, Max(0, abs_time - p.before_time))),
                             !.before_time = abs_time]
                     ELSE [p EXCEPT
                             !.after = Append(@, CopyTime(msg,
                                          Max(0, abs_time - p.after_time - split_tick))),
                             !.after_time = abs_time - split_tick]
    IN  <<st[n].before, st[n].after>>

_merge_track_halves(before, after, split_tick) ==
    LET before_abs == SumSeq([i \in 1..Len(before) |-> before[i].time])
        gap == split_tick - before_abs
        n == Len(after)
        st[i \in 0..n] ==
            IF i = 0 THEN [merged |-> before, first_after |-> TRUE,
                           seen_meta |-> {before[j].type : j \in
                                            {k \in 1..Len(before) : is_meta(before[k])}}]
            ELSE LET p == st[i - 1]
                     msg == after[i]
                 IN  IF is_meta(msg) /\ msg.type \in p.seen_meta /\ msg.time = 0
                     THEN [p EXCEPT !.seen_meta = @ \ {msg.type}]
                     ELSE IF p.first_after /\ gap > 0
                     THEN [p EXCEPT !.merged = Append(@, CopyTime(msg, Max(0, gap + msg.time))),
                                    !.first_after = FALSE]
                     ELSE [p EXCEPT !.merged = Append(@, msg)]
        merged == st[n].merged
    IN  IF merged = <<>> \/ merged[Len(merged)].type # "end_of_track"
        THEN Append(merged, MetaMessage("end_of_track", 0))
        ELSE merged

_final_chord_alignment(track) ==
    LET note_pairs == extract_note_pairs(track)
        non_notes == extract_non_note_messages(track)
    IN  IF note_pairs = <<>> THEN track
        ELSE rebuild_track_from_pairs(_align_chord_durations(note_pairs), non_notes, -1)

\* time_sig of process(): read from the first track
FileTimeSig(file) ==
    IF file.tracks # <<>> THEN get_time_signature(file.tracks[1]) ELSE <<4, 4>>

\* processing_start_tick of process()
processing_start_tick(cfg, file) ==
    (Get(cfg, "start_bar", 1) - 1)
        * calculate_bar_ticks(file.ticks_per_beat, FileTimeSig(file))

\* ------------------------------------------------------------------------
\* Bounds and input domains
\* ------------------------------------------------------------------------

\* longest generated input track, not counting its end_of_track
MaxTrackLen == 3

PPQ == 480

TEMPO_120 == 500000

TEMPO_100 == 600000

EOT == MetaMessage("end_of_track", 0)

\* the messages generated tracks are made of
Alphabet ==
    { Message("note_on", 0, 60, 80, 0),
      Message("note_off", 0, 60, 0, 480),
      Message("note_on", 1, 61, 90, 0),
      SetTempo(TEMPO_120, 0),
      SetTempo(TEMPO_120, 480),
      SetTempo(TEMPO_100, 0),
      TimeSignature(1, 4, 0),
      ControlChange(0, 64, 0) }

GenTracks ==
    { Append(t, EOT) : t \in UNION { [1..n -> Alphabet] : n \in 1..MaxTrackLen } }

\* test_config_integration._make_midi_with_tempo_spam: the conductor track
ConductorTrack ==
    << TimeSignature(4, 4, 0), SetTempo(TEMPO_120, 0), SetTempo(TEMPO_120, 480),
       SetTempo(TEMPO_120, 480), SetTempo(TEMPO_120, 480), EOT >>

\* test_config_integration._make_midi_with_tempo_spam: the data track
DataTrack ==
    << MetaMessage("track_name", 0),
       Message("note_on", 0, 60, 80, 0), Message("note_off", 0, 60, 0, 480),
       Message("note_on", 0, 62, 80, 0), Message("note_off", 0, 62, 0, 480), EOT >>

\* one track holding three set_tempo events of 500000 and two notes of 480
\* ticks (pitch 60 and pitch 62)
ScenarioTrack ==
    << SetTempo(TEMPO_120, 0),
       Message("note_on", 0, 60, 80, 0), SetTempo(TEMPO_120, 240),
       Message("note_off", 0, 60, 0, 240),
       Message("note_on", 0, 62, 80, 0), SetTempo(TEMPO_120, 240),
       Message("note_off", 0, 62, 0, 240), EOT >>

\* a two-channel track whose notes meet at tick 480 and sound across tick 1920
ChordTrack ==
    << MetaMessage("track_name", 0), SetTempo(TEMPO_120, 0),
       Message("note_on", 0, 60, 80, 0), Message("note_on", 1, 64, 70, 0),
       ControlChange(1, 7, 0),
       Message("note_off", 0, 60, 0, 480), Message("note_on", 0, 60, 80, 0),
       Message("note_off", 1, 64, 0, 240),
       Message("note_on", 0, 67, 80, 1200), TimeSignature(4, 4, 0),
       Message("note_off", 0, 60, 0, 240), Message("note_off", 0, 67, 0, 240),
       EOT >>

ScenarioTracks == {DataTrack, ScenarioTrack, ChordTrack}

File(type, tracks) == [type |-> type, ticks_per_beat |-> PPQ, tracks |-> tracks]

InputFiles ==
    { File(0, <<t>>) : t \in GenTracks \cup ScenarioTracks }
    \cup { File(1, <<ConductorTrack, t>>) : t \in ScenarioTracks }
    \cup { File(1, <<t, u>>) : t \in ScenarioTracks, u \in ScenarioTracks }

WithStartBar(cfg, b) == [cfg EXCEPT !.start_bar = b]

WithMergeTracks(cfg) == [cfg EXCEPT !.merge_tracks.enabled = TRUE]

StagesOff ==
    [DEFAULT_CONFIG EXCEPT !.tempo_deduplicator.enabled = FALSE,
                           !.merge_voices = FALSE,
                           !.remove_triplets = FALSE,
                           !.quantize = FALSE,
                           !.remove_cc = FALSE,
                           !.pitch_cluster.enabled = FALSE,
                           !.filter_noise = FALSE,
                           !.same_pitch_overlap_resolver.enabled = FALSE]

Configs ==
    { DEFAULT_CONFIG,
      WithStartBar(DEFAULT_CONFIG, 2),
      WithMergeTracks(DEFAULT_CONFIG),
      WithMergeTracks(WithStartBar(DEFAULT_CONFIG, 2)),
      StagesOff,
      WithMergeTracks([StagesOff EXCEPT !.merge_tracks.include_cc = TRUE]) }

\* ------------------------------------------------------------------------
\* State
\* ------------------------------------------------------------------------

VARIABLES
    workers,        \* the tuning runs: one record per call of AutoTuner.optimize
    registry,       \* _optimize_state[sid]: the entry object, 0 when absent
    heap,           \* the entry objects ever created, by object number
    lock,           \* _optimize_lock: the worker holding it, 0 when free
    poll,           \* the status request in progress
    http,           \* the response to the last start request
    reports,        \* _reports[sid]: written at the end of a web run
    request         \* the last suggestion request made to the advisor directly

tunerVars == <<workers, registry, heap, lock, poll, http, reports, request>>

VARIABLES
    midi_file,      \* the input file of ProcessingPipeline.process
    config,         \* ProcessingPipeline.config
    output,         \* the output file being built (and returned)
    track_idx,      \* index of the track being processed, from 0
    pc,             \* position of process() in its per-track stage chain
    result,         \* the track handed from stage to stage
    before,         \* the untouched first half when start_bar > 1
    track_config,   \* the config of the current track
    steps,          \* ctx.report.steps: the telemetry steps, in append order
    returned,       \* what the caller holds of its earlier process() calls on
                    \* this file: the config passed and the file returned
    call            \* a direct call of a helper function: its name, its
                    \* arguments, its value once it has returned, and the
                    \* arguments of the call that made its argument

pipeVars == <<midi_file, config, output, track_idx, pc, result, before,
              track_config, steps, returned, call>>

\* no helper is being called
NoCall == [fn |-> "", args |-> <<>>, value |-> <<>>, pc |-> "idle", from |-> <<>>]

vars == <<pipeVars, tunerVars>>

\* ------------------------------------------------------------------------
\* ProcessingPipeline.process as a step machine: one action per stage
\* ------------------------------------------------------------------------

Step(name, enabled, track_in, track_out) ==
    [name |-> name, enabled |-> enabled,
     input_note_count |-> count_notes(track_in),
     output_note_count |-> count_notes(track_out)]

CurrentTrack == midi_file.tracks[track_idx + 1]

start_tick == processing_start_tick(config, midi_file)

\* where process() goes once a track is appended to the output
NextTrackPc(idx) == IF idx < Len(midi_file.tracks) THEN "TempoDedup" ELSE "MergeTracks"

PipeInit ==
    /\ midi_file \in InputFiles
    /\ config \in Configs
    /\ output = [type |-> midi_file.type, ticks_per_beat |-> midi_file.ticks_per_beat,
                 tracks |-> <<>>]
    /\ track_idx = 0
    /\ pc = NextTrackPc(0)
    /\ result = <<>>
    /\ before = <<>>
    /\ track_config = config
    /\ steps = <<>>
    /\ returned = <<>>
    /\ call = NoCall

\* line 85 without the deepcopy, the deduplicator writing into the track it
\* is given
TempoDedupStep_inplace ==
    /\ pc = "TempoDedup"
    /\ result' = TempoDeduplicator(config, CurrentTrack)
    /\ midi_file' = [midi_file EXCEPT
                        !.tracks[track_idx + 1] = TempoDeduplicator(config, CurrentTrack)]
    /\ pc' = "Dispatch"
    /\ UNCHANGED <<config, output, track_idx, before, track_config, steps>>
    /\ UNCHANGED <<returned, call, tunerVars>>

\* line 85: the tempo deduplicator runs on a copy of every track
TempoDedupStep ==
    /\ pc = "TempoDedup"
    /\ result' = TempoDeduplicator(config, CurrentTrack)
    /\ pc' = "Dispatch"
    /\ UNCHANGED <<midi_file, config, output, track_idx, before, track_config, steps>>
    /\ UNCHANGED <<returned, call, tunerVars>>

\* lines 87-93 and 130-131: a track without notes is appended as
\* deduplicated; a track with notes gets its config, is split when
\* start_bar > 1, and enters the stage chain
DispatchStep ==
    /\ pc = "Dispatch"
    /\ IF ~has_notes(CurrentTrack)
       THEN /\ output' = [output EXCEPT !.tracks = Append(@, result)]
            /\ track_idx' = track_idx + 1
            /\ pc' = NextTrackPc(track_idx + 1)
            /\ UNCHANGED <<result, before, track_config>>
       ELSE /\ track_config' = _get_track_config(config, track_idx)
            /\ IF start_tick > 0
               THEN LET halves == _split_track_at_tick(result, start_tick)
                    IN  before' = halves[1] /\ result' = halves[2]
               ELSE before' = <<>> /\ result' = result
            /\ pc' = "PitchCluster"
            /\ UNCHANGED <<output, track_idx>>
    /\ UNCHANGED <<midi_file, config, steps, returned, call, tunerVars>>

\* one entry of the steps list of _apply_processors
StageStep(name, next, enabled, out) ==
    /\ pc = name
    /\ result' = out
    /\ steps' = Append(steps, Step(name, enabled, result, out))
    /\ pc' = next
    /\ UNCHANGED <<midi_file, config, output, track_idx, before, track_config>>
    /\ UNCHANGED <<returned, call, tunerVars>>

PitchClusterStep ==
    StageStep("PitchCluster", "VoiceMerger",
              Get(Get(track_config, "pitch_cluster", <<>>), "enabled", TRUE),
              PitchClusterProcessor(track_config, result))

VoiceMergerStep ==
    StageStep("VoiceMerger", "CCFilter", Get(track_config, "merge_voices", TRUE),
              VoiceMerger(track_config, result))

CCFilterStep ==
    StageStep("CCFilter", "TripletRemover", Get(track_config, "remove_cc", TRUE),
              CCFilter(track_config, result))

TripletRemoverStep ==
    StageStep("TripletRemover", "Quantizer", Get(track_config, "remove_triplets", TRUE),
              TripletRemover(track_config, result, midi_file.ticks_per_beat))

QuantizerStep ==
    StageStep("Quantizer", "NoiseFilter", Get(track_config, "quantize", TRUE),
              Quantizer(track_config, result, midi_file.ticks_per_beat,
                        FileTimeSig(midi_file)))

NoiseFilterStep ==
    StageStep("NoiseFilter", "SamePitchOverlapResolver",
              Get(track_config, "filter_noise", TRUE),
              NoiseFilter(track_config, result))

\* the stage chain without the final chord alignment: the overlap resolver
\* hands the track to the strip step whatever merge_voices says
SamePitchOverlapResolverStep_nofinal ==
    StageStep("SamePitchOverlapResolver", "Strip",
              Get(Get(track_config, "same_pitch_overlap_resolver", <<>>), "enabled", TRUE),
              SamePitchOverlapResolver(track_config, result))

SamePitchOverlapResolverStep ==
    StageStep("SamePitchOverlapResolver",
              IF Get(track_config, "merge_voices", TRUE)
              THEN "FinalChordAlignment" ELSE "Strip",
              Get(Get(track_config, "same_pitch_overlap_resolver", <<>>), "enabled", TRUE),
              SamePitchOverlapResolver(track_config, result))

FinalChordAlignmentStep ==
    StageStep("FinalChordAlignment", "Strip", TRUE, _final_chord_alignment(result))

\* lines 92-96 and 130-133: re-attach the first half, strip the conductor
\* meta, append the track to the output
StripStep ==
    /\ pc = "Strip"
    /\ LET processed == IF start_tick > 0
                        THEN _merge_track_halves(before, result, start_tick)
                        ELSE result
       IN  output' = [output EXCEPT !.tracks = Append(@, _strip_conductor_meta(processed))]
    /\ track_idx' = track_idx + 1
    /\ pc' = NextTrackPc(track_idx + 1)
    /\ UNCHANGED <<midi_file, config, result, before, track_config, steps>>
    /\ UNCHANGED <<returned, call, tunerVars>>

count_notes_midi(file) ==
    SumSeq([i \in 1..Len(file.tracks) |-> count_notes(file.tracks[i])])

\* lines 98-122: the two file-level telemetry steps and the flattener
MergeTracksStep ==
    /\ pc = "MergeTracks"
    /\ LET merged == MergeTracksToSingleTrack(config, output)
       IN  /\ output' = merged
           /\ steps' = steps \o
                << [name |-> "TempoDeduplicator",
                    enabled |-> Get(Get(config, "tempo_deduplicator", <<>>), "enabled", TRUE),
                    input_note_count |-> count_notes_midi(midi_file),
                    output_note_count |-> count_notes_midi(output)],
                   [name |-> "MergeTracksToSingleTrack",
                    enabled |-> Get(Get(config, "merge_tracks", <<>>), "enabled", FALSE),
                    input_note_count |-> count_notes_midi(output),
                    output_note_count |-> count_notes_midi(merged)] >>
    /\ pc' = "done"
    /\ UNCHANGED <<midi_file, config, track_idx, result, before, track_config>>
    /\ UNCHANGED <<returned, call, tunerVars>>

PipeNext ==
    \/ TempoDedupStep
    \/ DispatchStep
    \/ PitchClusterStep
    \/ VoiceMergerStep
    \/ CCFilterStep
    \/ TripletRemoverStep
    \/ QuantizerStep
    \/ NoiseFilterStep
    \/ SamePitchOverlapResolverStep
    \/ FinalChordAlignmentStep
    \/ StripStep
    \/ MergeTracksStep

\* ------------------------------------------------------------------------
\* Successive process() calls on one file object, as the trials of a tuner
\* run make them (auto_tuner.py, _objective): each call gets a new pipeline
\* and a new context, the file is the same object
\* ------------------------------------------------------------------------

\* most process() calls on one file
MaxProcessCalls == 3

\* the caller keeps what the finished call returned and calls process() on
\* the same file with the same or another configuration
ProcessAgain ==
    /\ pc = "done"
    /\ Len(returned) + 1 < MaxProcessCalls
    /\ returned' = Append(returned, [config |-> config, output |-> output])
    /\ config' \in {config, DEFAULT_CONFIG}
    /\ output' = [type |-> midi_file.type, ticks_per_beat |-> midi_file.ticks_per_beat,
                  tracks |-> <<>>]
    /\ track_idx' = 0
    /\ pc' = NextTrackPc(0)
    /\ result' = <<>>
    /\ before' = <<>>
    /\ track_config' = config'
    /\ steps' = <<>>
    /\ UNCHANGED <<midi_file, call, tunerVars>>

AgainNext == PipeNext \/ ProcessAgain

\* ------------------------------------------------------------------------
\* The advisory service wrapper (llm/guidance.py)
\*
\* A parameter map is a function from parameter names to values; None and
\* the empty dict are both the empty function (the code only tests them for
\* truth).  triplet_tolerance is in hundredths.
\* ------------------------------------------------------------------------

ALLOWED_PARAMS ==
    {"min_duration", "min_velocity", "cluster_window", "cluster_pitch",
     "triplet_tolerance", "quantize", "remove_triplets", "merge_voices"}

\* a reply of the service: a JSON object (kind "dict"), text that is no JSON
\* object (kind "invalid"), or _call_api raising (kind "raise")
Reply(kind, data) == [kind |-> kind, data |-> data]

_parse_response(resp) ==
    IF resp.kind # "dict" THEN <<>>
    ELSE [k \in DOMAIN resp.data \cap ALLOWED_PARAMS |-> resp.data[k]]

\* LLMAdvisor.__init__; service_calls counts the invocations of _call_api
LLMAdvisor(max_calls, enabled) ==
    [max_calls |-> max_calls, enabled |-> enabled, calls_made |-> 0,
     service_calls |-> 0, decisions |-> <<>>]

\* the decision_record suggest_params appends for a call
decision_record(call_number, params) ==
    [call_number |-> call_number, parsed_ok |-> params # <<>>,
     suggested_changes |-> params]

calls_remaining(adv) == Max(0, adv.max_calls - adv.calls_made)

\* the same, the call counted only when the service answered
suggest_params_countok(adv, resp) ==
    IF ~adv.enabled \/ adv.calls_made >= adv.max_calls
    THEN [adv |-> adv, result |-> <<>>, called |-> FALSE]
    ELSE LET params == IF resp.kind = "raise" THEN <<>> ELSE _parse_response(resp)
         IN  [adv |-> [adv EXCEPT
                          !.calls_made = IF resp.kind = "raise" THEN @ ELSE @ + 1,
                          !.service_calls = @ + 1,
                          !.decisions = Append(@, decision_record(adv.calls_made + 1,
                                                                  params))],
              result |-> params,
              called |-> TRUE]

\* LLMAdvisor.suggest_params: the advisor after the request, what the request
\* returns, and whether it called the service
suggest_params(adv, resp) ==
    IF ~adv.enabled \/ adv.calls_made >= adv.max_calls
    THEN [adv |-> adv, result |-> <<>>, called |-> FALSE]
    ELSE LET params == IF resp.kind = "raise" THEN <<>> ELSE _parse_response(resp)
         IN  [adv |-> [adv EXCEPT
                          !.calls_made = @ + 1,
                          !.service_calls = @ + 1,
                          !.decisions = Append(@, decision_record(adv.calls_made + 1,
                                                                  params))],
              result |-> params,
              called |-> TRUE]

\* ------------------------------------------------------------------------
\* The auto tuner (optimizers/auto_tuner.py)
\*
\* A score is an integer number of ten-thousandths (score_midi rounds to four
\* places).  The percentage tests are done in exact arithmetic.
\* ------------------------------------------------------------------------

_LLM_STALL_ROUNDS == 2

stagnation_rounds == 4

\* stagnation_pct = 0.5, in tenths of a percent
stagnation_pct_tenths == 5

decline_rounds == 2

\* decline_pct = 1.0, in tenths of a percent
decline_pct_tenths == 10

\* abs(s - base) / abs(base) * 100 < pct
WithinPct(s, base, pct_tenths) == 1000 * Abs(s - base) < pct_tenths * Abs(base)

\* rule 1 of _should_stop: every one of the last stagnation_rounds scores is
\* within stagnation_pct of the score before them, which is not 0
Stagnant(scores) ==
    LET n == Len(scores)
    IN  /\ n >= stagnation_rounds + 1
        /\ LET base == scores[n - stagnation_rounds]
           IN  /\ base # 0
               /\ \A i \in (n - stagnation_rounds + 1)..n :
                     WithinPct(scores[i], base, stagnation_pct_tenths)

\* rule 2 with a window one step too short
Declining_short(scores) ==
    LET n == Len(scores)
    IN  /\ n >= decline_rounds
        /\ \A i \in (n - decline_rounds + 2)..n :
              /\ scores[i - 1] # 0
              /\ 1000 * (scores[i - 1] - scores[i])
                    > decline_pct_tenths * Abs(scores[i - 1])

\* rule 2 of _should_stop: each of the last decline_rounds steps drops by
\* more than decline_pct of the score it starts from, which is not 0
Declining(scores) ==
    LET n == Len(scores)
    IN  /\ n >= decline_rounds + 1
        /\ \A i \in (n - decline_rounds + 1)..n :
              /\ scores[i - 1] # 0
              /\ 1000 * (scores[i - 1] - scores[i])
                    > decline_pct_tenths * Abs(scores[i - 1])

\* _EarlyStopCallback._should_stop
_should_stop(scores) == Stagnant(scores) \/ Declining(scores)

\* _EarlyStopCallback.stop_reason, or the 'max trials' of optimize()
stop_reason(scores) ==
    IF Stagnant(scores) THEN "stagnation"
    ELSE IF Declining(scores) THEN "score declined"
    ELSE "max trials"

TrialResult(number, score, params) ==
    [number |-> number, score |-> score, params |-> params]

\* AutoTuner._maybe_ask_llm: the advisor and the pending override after it;
\* resp is what the service would answer if it is called
_maybe_ask_llm(llm, llm_override, trials, trial_number, resp) ==
    LET same == [llm |-> llm, llm_override |-> llm_override]
        n == Len(trials)
    IN  IF ~llm.enabled \/ calls_remaining(llm) <= 0 THEN same
        ELSE IF trial_number < _LLM_STALL_ROUNDS THEN same
        ELSE IF n < _LLM_STALL_ROUNDS THEN same
        ELSE LET base == trials[n - _LLM_STALL_ROUNDS + 1].score
             IN  IF base # 0
                    /\ \A i \in (n - _LLM_STALL_ROUNDS + 2)..n :
                          WithinPct(trials[i].score, base, 5)
                 THEN LET r == suggest_params(llm, resp)
                      IN  [llm |-> r.adv,
                           llm_override |-> IF r.result # <<>> THEN r.result
                                            ELSE llm_override]
                 ELSE same

ParamNames == ALLOWED_PARAMS \cup {"same_pitch_resolver"}

\* the defaults of the override branch of _suggest_params
OverrideDefaults ==
    [min_duration |-> 120, min_velocity |-> 10, cluster_window |-> 20,
     cluster_pitch |-> 1, triplet_tolerance |-> 15, quantize |-> FALSE,
     remove_triplets |-> FALSE, merge_voices |-> TRUE,
     same_pitch_resolver |-> TRUE]

\* _suggest_params with the override left pending after it was used
_suggest_params_keep(llm_override, sampled) ==
    IF llm_override # <<>>
    THEN [params |-> [k \in ParamNames |-> Get(llm_override, k, OverrideDefaults[k])],
          optuna_params |-> <<>>,
          llm_override |-> llm_override]
    ELSE [params |-> sampled, optuna_params |-> sampled, llm_override |-> llm_override]

\* AutoTuner._suggest_params: the parameters of the trial, the parameters
\* Optuna records for it (only those drawn with trial.suggest_*), and the
\* pending override afterwards; sampled is what the sampler would draw
_suggest_params(llm_override, sampled) ==
    IF llm_override # <<>>
    THEN [params |-> [k \in ParamNames |-> Get(llm_override, k, OverrideDefaults[k])],
          optuna_params |-> <<>>,
          llm_override |-> <<>>]
    ELSE [params |-> sampled, optuna_params |-> sampled, llm_override |-> llm_override]

\* the keys _params_to_config indexes without a default
RequiredParams == ALLOWED_PARAMS

\* _params_to_config raises KeyError on a map that lacks a required key
_params_to_config_raises(params) == \E k \in RequiredParams : k \notin DOMAIN params

_params_to_config(params) ==
    [DEFAULT_CONFIG EXCEPT
        !.min_duration_ticks = params["min_duration"],
        !.min_velocity = params["min_velocity"],
        !.pitch_cluster = [enabled |-> TRUE,
                           time_window_ticks |-> params["cluster_window"],
                           pitch_threshold |-> params["cluster_pitch"]],
        !.triplet_tolerance = params["triplet_tolerance"],
        !.quantize = params["quantize"],
        !.remove_triplets = params["remove_triplets"],
        !.merge_voices = params["merge_voices"],
        !.filter_noise = TRUE,
        !.same_pitch_overlap_resolver =
            [enabled |-> Get(params, "same_pitch_resolver", TRUE)],
        !.tempo_deduplicator = [enabled |-> TRUE],
        !.remove_overlaps = TRUE,
        !.remove_cc = TRUE]

\* study.best_trial: the first trial with the greatest value
best_trial(study) ==
    LET i == CHOOSE i \in 1..Len(study) :
                 /\ \A j \in 1..Len(study) : study[j].value <= study[i].value
                 /\ \A j \in 1..(i - 1) : study[j].value < study[i].value
    IN  study[i]

\* ------------------------------------------------------------------------
\* Bounds and input domains of the tuner and the web layer
\* ------------------------------------------------------------------------

\* most trials of a tuning run started by calling AutoTuner.optimize directly
MaxTrials == 6

\* most trials of a tuning run started over the web
MaxWebTrials == 2

\* most tuning runs the web layer accepts in one behaviour
MaxRuns == 2

\* greatest max_calls of an advisor
MaxCalls == 2

\* LLMAdvisor.__init__: the default of max_calls
DEFAULT_MAX_CALLS == 3

\* float('-inf') of a new registry entry, below every score
NEG_INF == -100000000

\* scores a trial can get: 10020 is within 0.5% of 10000, 9800 is more than
\* 1% below both, 0 is below 9800; no two are at a threshold
Scores == {0, 9800, 10000, 10020}

\* the same for a file whose score can be negative (the voice and overlap
\* penalties of score_midi outweigh the rest): -10000 is more than 1% of
\* 9800 below -9800
NegScores == {-10000, -9800, 10000, 10020}

\* the files AutoTuner.optimize is called on, each as the scores its trials
\* can get
TunedFiles == {Scores, NegScores}

\* scores a trial of the file uploaded to the web layer can get
WebScores == {9800, 10000}

\* what the pipeline run and score_midi of one trial come to, for a file
\* whose trials can get the given scores
Outcomes(scores) ==
    {[raises |-> FALSE, score |-> s] : s \in scores}
        \cup {[raises |-> TRUE, score |-> 0]}

\* what the seeded sampler draws for a trial (the ends of the guitar ranges,
\* in turn)
Sampled(number) ==
    IF number % 2 = 0
    THEN
      [min_duration |-> 80, min_velocity |-> 5, cluster_window |-> 10,
       cluster_pitch |-> 0, triplet_tolerance |-> 5, quantize |-> TRUE,
       remove_triplets |-> TRUE, merge_voices |-> TRUE,
       same_pitch_resolver |-> TRUE]
    ELSE
      [min_duration |-> 240, min_velocity |-> 40, cluster_window |-> 80,
       cluster_pitch |-> 2, triplet_tolerance |-> 30, quantize |-> FALSE,
       remove_triplets |-> FALSE, merge_voices |-> FALSE,
       same_pitch_resolver |-> FALSE]

\* what the service answers
ServiceReplies ==
    { Reply("dict", [k \in {"min_duration", "quantize", "unknown_key"} |->
                        CASE k = "min_duration" -> 100
                          [] k = "quantize" -> TRUE
                          [] OTHER -> 42]),
      Reply("dict", [k \in {"unknown_key"} |-> 42]),
      Reply("invalid", <<>>),
      Reply("raise", <<>>) }

\* ------------------------------------------------------------------------
\* A tuning run as a step machine.  A run started over the web (web = TRUE)
\* is the thread of _run_optimization; one started directly is a call of
\* AutoTuner.optimize.
\* ------------------------------------------------------------------------

NoResult == [best_params |-> <<>>, best_score |-> 0, stop_reason |-> ""]

\* AutoTuner.__init__ and the locals of optimize(); file_scores stands for
\* the file being tuned
Worker(web, max_trials, llm, file_scores) ==
    [pc |-> IF web THEN "load" ELSE "trial",
     web |-> web,
     file_scores |-> file_scores,
     max_trials |-> max_trials,
     llm |-> llm,
     llm_override |-> <<>>,
     trials |-> <<>>,          \* self._trials
     scores |-> <<>>,          \* early_stop._scores
     study |-> <<>>,           \* the trials of the Optuna study: value, params
     stop |-> FALSE,           \* study.stop() was called
     result |-> NoResult,
     error |-> ""]

\* the entry start_optimization creates
NewEntry(max_trials) ==
    [status |-> "running", current_trial |-> 0, total_trials |-> max_trials,
     best_score |-> NEG_INF, best_params |-> <<>>, current_params |-> <<>>,
     trials |-> <<>>, stop_reason |-> "", error |-> ""]

IdlePoll ==
    [pc |-> "idle", st |-> 0,
     resp |-> [status |-> "", current_trial |-> 0, best_score |-> NEG_INF,
               trials |-> <<>>, error |-> ""]]

NoRequest == [made |-> FALSE, at_cap |-> FALSE, called |-> FALSE, result |-> <<>>]

TunerIdle ==
    /\ workers = <<>>
    /\ registry = 0
    /\ heap = <<>>
    /\ lock = 0
    /\ poll = IdlePoll
    /\ http = 0
    /\ reports = <<>>
    /\ request = NoRequest

PipeIdle ==
    /\ midi_file = File(0, <<ScenarioTrack>>)
    /\ config = DEFAULT_CONFIG
    /\ output = File(0, <<>>)
    /\ track_idx = 0
    /\ pc = "idle"
    /\ result = <<>>
    /\ before = <<>>
    /\ track_config = DEFAULT_CONFIG
    /\ steps = <<>>
    /\ returned = <<>>
    /\ call = NoCall

\* where an exception goes: the except block of _run_optimization, or out of
\* optimize() to its caller
Raise(w, msg) ==
    [workers[w] EXCEPT !.pc = IF workers[w].web THEN "except" ELSE "raised",
                       !.error = msg]

\* _run_optimization lines 390-428: load the file, build the tuner, set
\* track_type under the lock (track_type is not kept in the entry here)
WorkerLoad(w) ==
    /\ workers[w].pc = "load"
    /\ lock = 0
    /\ \E ok \in BOOLEAN :
          workers' = [workers EXCEPT ![w] =
                         IF ok THEN [@ EXCEPT !.pc = "trial"]
                         ELSE Raise(w, "load failed")]
    /\ UNCHANGED <<registry, heap, lock, poll, http, reports, request, pipeVars>>

\* AutoTuner._objective up to self._trials.append(tr), for the next trial of
\* study.optimize
Objective(w) ==
    /\ workers[w].pc = "trial"
    /\ ~workers[w].stop
    /\ Len(workers[w].study) < workers[w].max_trials
    /\ \E resp \in ServiceReplies, out \in Outcomes(workers[w].file_scores) :
          LET me == workers[w]
              number == Len(me.study)
              sampled == Sampled(number)
              asked == _maybe_ask_llm(me.llm, me.llm_override, me.trials, number, resp)
              sp == _suggest_params(asked.llm_override, sampled)
              ran == [me EXCEPT !.llm = asked.llm, !.llm_override = sp.llm_override]
          IN  workers' = [workers EXCEPT ![w] =
                  IF out.raises
                  THEN [ran EXCEPT !.pc = IF me.web THEN "except" ELSE "raised",
                                   !.error = "pipeline failed"]
                  ELSE [ran EXCEPT
                           !.trials = Append(@, TrialResult(number, out.score, sp.params)),
                           !.study = Append(@, [value |-> out.score,
                                                params |-> sp.optuna_params]),
                           !.pc = IF me.web THEN "on_trial" ELSE "callbacks"]]
    /\ UNCHANGED <<registry, heap, lock, poll, http, reports, request, pipeVars>>

\* the same, current_trial set to the number of the trial itself
OnTrialCurrent_number(w) ==
    /\ workers[w].pc = "on_trial"
    /\ lock = 0
    /\ lock' = w
    /\ LET tr == workers[w].trials[Len(workers[w].trials)]
       IN  heap' = IF registry = 0 THEN heap
                   ELSE [heap EXCEPT ![registry].current_trial = tr.number]
    /\ workers' = [workers EXCEPT ![w].pc = "on_trial_best"]
    /\ UNCHANGED <<registry, poll, http, reports, request, pipeVars>>

\* on_trial, first statement: take the lock, set current_trial
OnTrialCurrent(w) ==
    /\ workers[w].pc = "on_trial"
    /\ lock = 0
    /\ lock' = w
    /\ LET tr == workers[w].trials[Len(workers[w].trials)]
       IN  heap' = IF registry = 0 THEN heap
                   ELSE [heap EXCEPT ![registry].current_trial = tr.number + 1]
    /\ workers' = [workers EXCEPT ![w].pc = "on_trial_best"]
    /\ UNCHANGED <<registry, poll, http, reports, request, pipeVars>>

\* on_trial, second statement: best_score
OnTrialBest(w) ==
    /\ workers[w].pc = "on_trial_best"
    /\ LET tr == workers[w].trials[Len(workers[w].trials)]
       IN  heap' = IF registry = 0 THEN heap
                   ELSE [heap EXCEPT ![registry].best_score = Max(@, tr.score)]
    /\ workers' = [workers EXCEPT ![w].pc = "on_trial_append"]
    /\ UNCHANGED <<registry, lock, poll, http, reports, request, pipeVars>>

\* on_trial, the rest: current_params, the append to trials, release the lock;
\* _objective returns
OnTrialAppend(w) ==
    /\ workers[w].pc = "on_trial_append"
    /\ LET tr == workers[w].trials[Len(workers[w].trials)]
       IN  heap' = IF registry = 0 THEN heap
                   ELSE [heap EXCEPT ![registry].current_params = tr.params,
                                     ![registry].trials = Append(@, tr)]
    /\ lock' = 0
    /\ workers' = [workers EXCEPT ![w].pc = "callbacks"]
    /\ UNCHANGED <<registry, poll, http, reports, request, pipeVars>>

\* _EarlyStopCallback.__call__ on the finished trial
EarlyStopCallback(w) ==
    /\ workers[w].pc = "callbacks"
    /\ LET me == workers[w]
           scores == Append(me.scores, me.study[Len(me.study)].value)
       IN  workers' = [workers EXCEPT ![w] =
               [me EXCEPT !.scores = scores,
                          !.stop = me.stop \/ _should_stop(scores),
                          !.pc = "trial"]]
    /\ UNCHANGED <<registry, heap, lock, poll, http, reports, request, pipeVars>>

\* optimize() lines 291-307, once study.optimize has returned
Best(w) ==
    /\ workers[w].pc = "trial"
    /\ workers[w].stop \/ Len(workers[w].study) >= workers[w].max_trials
    /\ LET me == workers[w]
           best == best_trial(me.study)
       IN  workers' = [workers EXCEPT ![w] =
               IF _params_to_config_raises(best.params)
               THEN Raise(w, "KeyError")
               ELSE [me EXCEPT !.result = [best_params |-> best.params,
                                           best_score |-> best.value,
                                           stop_reason |-> stop_reason(me.scores)],
                               !.pc = IF me.web THEN "final" ELSE "returned"]]
    /\ UNCHANGED <<registry, heap, lock, poll, http, reports, request, pipeVars>>

\* _run_optimization lines 432-447: the final pipeline run and the save
FinalProcess(w) ==
    /\ workers[w].pc = "final"
    /\ \E ok \in BOOLEAN :
          workers' = [workers EXCEPT ![w] =
                         IF ok THEN [@ EXCEPT !.pc = "done"]
                         ELSE Raise(w, "save failed")]
    /\ UNCHANGED <<registry, heap, lock, poll, http, reports, request, pipeVars>>

\* lines 449-452: take the lock, set status to done
DoneStatus(w) ==
    /\ workers[w].pc = "done"
    /\ lock = 0
    /\ lock' = w
    /\ heap' = IF registry = 0 THEN heap
               ELSE [heap EXCEPT ![registry].status = "done"]
    /\ workers' = [workers EXCEPT ![w].pc = "done_rest"]
    /\ UNCHANGED <<registry, poll, http, reports, request, pipeVars>>

\* lines 453-459: the other fields of the finished run, release the lock
DoneRest(w) ==
    /\ workers[w].pc = "done_rest"
    /\ LET me == workers[w]
       IN  heap' = IF registry = 0 THEN heap
                   ELSE [heap EXCEPT ![registry].best_score = me.result.best_score,
                                     ![registry].best_params = me.result.best_params,
                                     ![registry].stop_reason = me.result.stop_reason,
                                     ![registry].total_trials = Len(me.trials)]
    /\ lock' = 0
    /\ workers' = [workers EXCEPT ![w].pc = "report"]
    /\ UNCHANGED <<registry, poll, http, reports, request, pipeVars>>

\* lines 461-462: the report of the run
Report(w) ==
    /\ workers[w].pc = "report"
    /\ reports' = [best_params |-> workers[w].result.best_params,
                   optimizer_history |-> workers[w].trials]
    /\ workers' = [workers EXCEPT ![w].pc = "exit"]
    /\ UNCHANGED <<registry, heap, lock, poll, http, request, pipeVars>>

\* lines 464-469: take the lock, set status to error
ExceptStatus(w) ==
    /\ workers[w].pc = "except"
    /\ lock = 0
    /\ lock' = w
    /\ heap' = IF registry = 0 THEN heap
               ELSE [heap EXCEPT ![registry].status = "error"]
    /\ workers' = [workers EXCEPT ![w].pc = "except_error"]
    /\ UNCHANGED <<registry, poll, http, reports, request, pipeVars>>

\* the same, the trial history reset with the message
ExceptError_clear(w) ==
    /\ workers[w].pc = "except_error"
    /\ heap' = IF registry = 0 THEN heap
               ELSE [heap EXCEPT ![registry].error = workers[w].error,
                                 ![registry].trials = <<>>]
    /\ lock' = 0
    /\ workers' = [workers EXCEPT ![w].pc = "exit"]
    /\ UNCHANGED <<registry, poll, http, reports, request, pipeVars>>

\* line 470: the message, release the lock
ExceptError(w) ==
    /\ workers[w].pc = "except_error"
    /\ heap' = IF registry = 0 THEN heap
               ELSE [heap EXCEPT ![registry].error = workers[w].error]
    /\ lock' = 0
    /\ workers' = [workers EXCEPT ![w].pc = "exit"]
    /\ UNCHANGED <<registry, poll, http, reports, request, pipeVars>>

\* ------------------------------------------------------------------------
\* The web layer: start_optimization and optimization_status
\* ------------------------------------------------------------------------

\* the test of line 493 against a status no entry ever has
already_running_started(existing) ==
    existing # 0 /\ heap[existing].status = "started"

\* start_optimization line 493: existing and existing.get('status') == 'running'
already_running(existing) == existing # 0 /\ heap[existing].status = "running"

\* start_optimization answering 409: lines 491-494
StartRejected ==
    /\ lock = 0
    /\ already_running(registry)
    /\ http' = 409
    /\ UNCHANGED <<workers, registry, heap, lock, poll, reports, request, pipeVars>>

\* start_optimization accepting: the new entry replaces the old one under the
\* lock, then the worker thread is started
StartAccepted ==
    /\ lock = 0
    /\ ~already_running(registry)
    /\ Len(workers) < MaxRuns
    /\ \E max_trials \in 1..MaxWebTrials :
          /\ heap' = Append(heap, NewEntry(max_trials))
          /\ workers' = Append(workers,
                               Worker(TRUE, max_trials,
                                      LLMAdvisor(DEFAULT_MAX_CALLS, TRUE),
                                      WebScores))
    /\ registry' = Len(heap) + 1
    /\ http' = 200
    /\ UNCHANGED <<lock, poll, reports, request, pipeVars>>

\* optimization_status lines 528-532: fetch the entry under the lock; no
\* entry answers idle
PollGet ==
    /\ poll.pc = "idle"
    /\ lock = 0
    /\ poll' = IF registry = 0
               THEN [IdlePoll EXCEPT !.resp.status = "idle"]
               ELSE [IdlePoll EXCEPT !.pc = "status", !.st = registry]
    /\ UNCHANGED <<workers, registry, heap, lock, http, reports, request, pipeVars>>

\* line 535, read without the lock
PollStatus ==
    /\ poll.pc = "status"
    /\ poll' = [poll EXCEPT !.resp.status = heap[poll.st].status,
                            !.pc = "current_trial"]
    /\ UNCHANGED <<workers, registry, heap, lock, http, reports, request, pipeVars>>

\* line 536
PollCurrentTrial ==
    /\ poll.pc = "current_trial"
    /\ poll' = [poll EXCEPT !.resp.current_trial = heap[poll.st].current_trial,
                            !.pc = "best_score"]
    /\ UNCHANGED <<workers, registry, heap, lock, http, reports, request, pipeVars>>

\* line 538 (NEG_INF stands for the None of the response)
PollBestScore ==
    /\ poll.pc = "best_score"
    /\ poll' = [poll EXCEPT !.resp.best_score = heap[poll.st].best_score,
                            !.pc = "trials"]
    /\ UNCHANGED <<workers, registry, heap, lock, http, reports, request, pipeVars>>

\* lines 543-552: the error, and jsonify serializing the trials list the
\* response refers to
PollTrials ==
    /\ poll.pc = "trials"
    /\ poll' = [poll EXCEPT !.resp.trials = heap[poll.st].trials,
                            !.resp.error = heap[poll.st].error,
                            !.pc = "idle"]
    /\ UNCHANGED <<workers, registry, heap, lock, http, reports, request, pipeVars>>

\* a suggestion request made to the advisor of the run by its owner once
\* optimize() is over, as test_call_count_limit makes them
SuggestRequest ==
    /\ workers[1].pc \in {"returned", "raised"}
    /\ \E resp \in ServiceReplies :
          LET llm == workers[1].llm
              r == suggest_params(llm, resp)
          IN  /\ workers' = [workers EXCEPT ![1].llm = r.adv]
              /\ request' = [made |-> TRUE,
                             at_cap |-> llm.calls_made >= llm.max_calls,
                             called |-> r.called,
                             result |-> r.result]
    /\ UNCHANGED <<registry, heap, lock, poll, http, reports, pipeVars>>

\* ------------------------------------------------------------------------
\* Specifications
\* ------------------------------------------------------------------------

\* the advisors a run is given: enabled ones, and the disabled default
Advisors ==
    {LLMAdvisor(max_calls, TRUE) : max_calls \in 1..MaxCalls}
        \cup {LLMAdvisor(DEFAULT_MAX_CALLS, FALSE)}

\* a direct call of AutoTuner.optimize
TunerInit ==
    /\ PipeIdle
    /\ \E max_trials \in 1..MaxTrials, llm \in Advisors, file_scores \in TunedFiles :
          workers = <<Worker(FALSE, max_trials, llm, file_scores)>>
    /\ registry = 0
    /\ heap = <<>>
    /\ lock = 0
    /\ poll = IdlePoll
    /\ http = 0
    /\ reports = <<>>
    /\ request = NoRequest

TunerNext ==
    \/ Objective(1)
    \/ EarlyStopCallback(1)
    \/ Best(1)
    \/ SuggestRequest

SpecTuner == TunerInit /\ [][TunerNext]_vars

\* the web layer with its background workers
RegistryInit == PipeIdle /\ TunerIdle

RegistryNext ==
    \/ StartRejected
    \/ StartAccepted
    \/ PollGet
    \/ PollStatus
    \/ PollCurrentTrial
    \/ PollBestScore
    \/ PollTrials
    \/ \E w \in DOMAIN workers : WorkerLoad(w)
    \/ \E w \in DOMAIN workers : Objective(w)
    \/ \E w \in DOMAIN workers : OnTrialCurrent(w)
    \/ \E w \in DOMAIN workers : OnTrialBest(w)
    \/ \E w \in DOMAIN workers : OnTrialAppend(w)
    \/ \E w \in DOMAIN workers : EarlyStopCallback(w)
    \/ \E w \in DOMAIN workers : Best(w)
    \/ \E w \in DOMAIN workers : FinalProcess(w)
    \/ \E w \in DOMAIN workers : DoneStatus(w)
    \/ \E w \in DOMAIN workers : DoneRest(w)
    \/ \E w \in DOMAIN workers : Report(w)
    \/ \E w \in DOMAIN workers : ExceptStatus(w)
    \/ \E w \in DOMAIN workers : ExceptError(w)

SpecRegistry == RegistryInit /\ [][RegistryNext]_vars

\* ------------------------------------------------------------------------
\* The stages called one at a time on a track (as the unit tests call them)
\* ------------------------------------------------------------------------

\* most notes of a generated note track
MaxNotes == 3

\* the notes generated note tracks are made of: two channels, onsets inside
\* (10, 20) and outside (21, 480) the cluster window of the first, pitches
\* inside (61) and outside (62, 64) the pitch threshold, off-grid onsets, an
\* onset halfway between two grid lines (120), a note across the bar line
StageNotes ==
    << Note(60, 0, 80, 0, 480),    Note(60, 0, 80, 10, 250),
       Note(60, 0, 90, 10, 490),   Note(60, 0, 80, 240, 720),
       Note(61, 0, 80, 0, 480),    Note(61, 0, 80, 10, 250),
       Note(61, 0, 90, 20, 260),   Note(61, 0, 80, 21, 501),
       Note(62, 0, 80, 0, 480),    Note(62, 0, 70, 10, 490),
       Note(64, 0, 80, 0, 480),    Note(60, 1, 80, 0, 480),
       Note(61, 1, 90, 10, 250),   Note(60, 0, 80, 120, 130),
       Note(62, 0, 80, 1700, 2180), Note(60, 0, 80, 480, 960) >>

\* _make_track(*notes) for up to MaxNotes notes of StageNotes (picked by
\* strictly increasing index): the events by tick, note-offs first at a
\* tick, then end_of_track
NoteTracks ==
    LET Picks(n) == {p \in [1..n -> 1..Len(StageNotes)] :
                        \A i \in 1..(n - 1) : p[i] < p[i + 1]}
        _make_track(p) ==
            Append(rebuild_track_from_pairs([i \in 1..Len(p) |-> StageNotes[p[i]]],
                                            <<>>, -1), EOT)
    IN  {_make_track(p) : p \in UNION {Picks(n) : n \in 1..MaxNotes}}

\* the note tracks preceded by a note of no duration: a note_on directly
\* followed by its note_off at the same tick
GraceTracks ==
    {<<Message("note_on", 0, pitch, 80, 0), Message("note_off", 0, pitch, 0, 0)>> \o t :
        pitch \in {60, 64}, t \in NoteTracks}

\* the note tracks of one or two notes with a track_name in front and a
\* key_signature put in at any place, at the tick of the event before it
KeyTracks ==
    LET with_key(t, i) == <<MetaMessage("track_name", 0)>> \o SubSeq(t, 1, i)
                              \o <<MetaMessage("key_signature", 0)>>
                              \o SubSeq(t, i + 1, Len(t))
    IN  UNION {{with_key(t, i) : i \in 0..(Len(t) - 1)} :
                  t \in {u \in NoteTracks : Len(u) <= 5}}

\* single-track files, and files of two tracks taken from the scenario
\* tracks and the note tracks of one note
StageFiles ==
    LET single == {t \in NoteTracks : Len(t) = 3}
    IN  {File(1, <<t>>) : t \in NoteTracks \cup GraceTracks \cup GenTracks \cup ScenarioTracks}
            \cup {File(1, <<ConductorTrack, t>>) : t \in ScenarioTracks}
            \cup {File(1, <<t, u>>) : t \in ScenarioTracks \cup single,
                                      u \in ScenarioTracks \cup single}

StageConfigs ==
    {DEFAULT_CONFIG, [DEFAULT_CONFIG EXCEPT !.quantize_grid = "sixteenth"],
     StagesOff, WithMergeTracks(DEFAULT_CONFIG),
     WithMergeTracks([StagesOff EXCEPT !.merge_tracks.include_cc = TRUE])}

StageInit ==
    /\ midi_file \in StageFiles
    /\ config \in StageConfigs
    /\ output = File(0, <<>>)
    /\ track_idx = 0
    /\ pc = "call"
    /\ result = <<>>
    /\ before = <<>>
    /\ track_config = config
    /\ steps = <<>>
    /\ returned = <<>>
    /\ call = NoCall
    /\ TunerIdle

\* Stage(config).process(track, ticks_per_beat) on the first track of the file
StageCall(name, out) ==
    /\ pc = "call"
    /\ pc' = name
    /\ result' = out
    /\ UNCHANGED <<midi_file, config, output, track_idx, before, track_config, steps>>
    /\ UNCHANGED <<returned, call, tunerVars>>

\* MergeTracksToSingleTrack(config).process(midi_file)
FlattenCall ==
    /\ pc = "call"
    /\ pc' = "MergeTracksToSingleTrack"
    /\ output' = MergeTracksToSingleTrack(config, midi_file)
    /\ UNCHANGED <<midi_file, config, result, track_idx, before, track_config, steps>>
    /\ UNCHANGED <<returned, call, tunerVars>>

StageNext ==
    \/ StageCall("TempoDeduplicator", TempoDeduplicator(config, CurrentTrack))
    \/ StageCall("PitchCluster", PitchClusterProcessor(config, CurrentTrack))
    \/ StageCall("VoiceMerger", VoiceMerger(config, CurrentTrack))
    \/ StageCall("CCFilter", CCFilter(config, CurrentTrack))
    \/ StageCall("TripletRemover",
                 TripletRemover(config, CurrentTrack, midi_file.ticks_per_beat))
    \/ StageCall("Quantizer",
                 Quantizer(config, CurrentTrack, midi_file.ticks_per_beat,
                           FileTimeSig(midi_file)))
    \/ StageCall("NoiseFilter", NoiseFilter(config, CurrentTrack))
    \/ StageCall("SamePitchOverlapResolver",
                 SamePitchOverlapResolver(config, CurrentTrack))
    \/ FlattenCall

SpecStage == StageInit /\ [][StageNext]_vars

Init == PipeInit /\ TunerIdle

Next == PipeNext

Spec == Init /\ [][Next]_vars

SpecAgain == Init /\ [][AgainNext]_vars

\* process() with a start bar beyond the first, on single-track files whose
\* track holds a track_name, a key_signature and notes on both sides of the
\* start tick
BarsInit ==
    /\ midi_file \in {File(1, <<t>>) : t \in KeyTracks \cup ScenarioTracks}
    /\ config \in {WithStartBar(StagesOff, 2), WithStartBar(DEFAULT_CONFIG, 2)}
    /\ output = [type |-> midi_file.type, ticks_per_beat |-> midi_file.ticks_per_beat,
                 tracks |-> <<>>]
    /\ track_idx = 0
    /\ pc = NextTrackPc(0)
    /\ result = <<>>
    /\ before = <<>>
    /\ track_config = config
    /\ steps = <<>>
    /\ returned = <<>>
    /\ call = NoCall
    /\ TunerIdle

SpecBars == BarsInit /\ [][Next]_vars

\* the per-track overrides of a run, by track index: a nested dict holding
\* only some of its keys, top-level keys, both, none
TrackOverrides ==
    { <<>>,
      (0 :> [pitch_cluster |-> [pitch_threshold |-> 1]]),
      (1 :> [quantize |-> FALSE, min_velocity |-> 90]),
      (0 :> [merge_voices |-> FALSE]) @@ (1 :> [pitch_cluster |-> [enabled |-> FALSE]]) }

\* process() on files of two tracks under a configuration with per-track
\* overrides
OverrideInit ==
    /\ midi_file \in LET single == {t \in NoteTracks : Len(t) <= 5}
                     IN  {File(1, <<t, u>>) : t \in ScenarioTracks \cup single,
                                              u \in ScenarioTracks \cup {ConductorTrack}}
    /\ config \in {[DEFAULT_CONFIG EXCEPT !.track_overrides = o] : o \in TrackOverrides}
    /\ output = [type |-> midi_file.type, ticks_per_beat |-> midi_file.ticks_per_beat,
                 tracks |-> <<>>]
    /\ track_idx = 0
    /\ pc = NextTrackPc(0)
    /\ result = <<>>
    /\ before = <<>>
    /\ track_config = config
    /\ steps = <<>>
    /\ returned = <<>>
    /\ call = NoCall
    /\ TunerIdle

SpecOverride == OverrideInit /\ [][Next]_vars

\* the voice merger and the final chord alignment alone
OnlyVoices == [StagesOff EXCEPT !.merge_voices = TRUE]

\* the voice merger without its overlap merge, alone and with the quantizer
KeepOverlaps == [OnlyVoices EXCEPT !.remove_overlaps = FALSE]

KeepOverlapsQuantized == [KeepOverlaps EXCEPT !.quantize = TRUE]

\* the same-pitch overlap resolver alone
OnlyResolver == [StagesOff EXCEPT !.same_pitch_overlap_resolver.enabled = TRUE]

\* notes of one pitch that sound together, with notes of another pitch that
\* start with the second of them or ten ticks after it
OverlapNotes ==
    << Note(60, 0, 80, 0, 720), Note(60, 0, 80, 240, 960), Note(60, 0, 80, 480, 1200),
       Note(64, 0, 80, 240, 480), Note(64, 0, 80, 250, 490) >>

\* _make_track(*notes) for up to MaxNotes notes of OverlapNotes
OverlapTracks ==
    LET Picks(n) == {p \in [1..n -> 1..Len(OverlapNotes)] :
                        \A i \in 1..(n - 1) : p[i] < p[i + 1]}
        _make_track(p) ==
            Append(rebuild_track_from_pairs([i \in 1..Len(p) |-> OverlapNotes[p[i]]],
                                            <<>>, -1), EOT)
    IN  {_make_track(p) : p \in UNION {Picks(n) : n \in 1..MaxNotes}}

\* process() on single-track files of generated note tracks, notes of no
\* duration and notes of one pitch that sound together among them, and on
\* two-track files of scenario tracks
NotesInit ==
    /\ midi_file \in {File(1, <<t>>) : t \in NoteTracks \cup GraceTracks \cup OverlapTracks
                                               \cup ScenarioTracks}
                        \cup {File(1, <<t, u>>) : t \in ScenarioTracks, u \in ScenarioTracks}
    /\ config \in {DEFAULT_CONFIG, OnlyVoices, StagesOff, KeepOverlaps, KeepOverlapsQuantized,
                   OnlyResolver,
                   WithStartBar(DEFAULT_CONFIG, 2), WithStartBar(OnlyVoices, 2),
                   WithMergeTracks(OnlyVoices)}
    /\ output = [type |-> midi_file.type, ticks_per_beat |-> midi_file.ticks_per_beat,
                 tracks |-> <<>>]
    /\ track_idx = 0
    /\ pc = NextTrackPc(0)
    /\ result = <<>>
    /\ before = <<>>
    /\ track_config = config
    /\ steps = <<>>
    /\ returned = <<>>
    /\ call = NoCall
    /\ TunerIdle

SpecNotes == NotesInit /\ [][Next]_vars

\* ------------------------------------------------------------------------
\* Direct calls of the helper functions
\* ------------------------------------------------------------------------

\* the largest tick handed to _snap_to_grid
MaxTick == 720

Call(fn, args) == [fn |-> fn, args |-> args, value |-> <<>>, pc |-> "call", from |-> <<>>]

\* _snap_to_grid(tick, ticks_per_beat / divisor) for every tick up to MaxTick
\* and the quarter, eighth and sixteenth grids at PPQ ticks per beat
SnapCalls ==
    {Call("_snap_to_grid", <<tick, GRID_DIVISORS(name)>>) :
        tick \in 0..MaxTick, name \in {"quarter", "eighth", "sixteenth"}}

\* _find_primary_channel(track) for the generated tracks (orphan note-offs
\* and unclosed note-ons among them), the note tracks and the scenario tracks
PrimaryCalls ==
    {Call("_find_primary_channel", <<t>>) : t \in GenTracks \cup NoteTracks \cup ScenarioTracks}

\* most messages of a track handed to extract_note_pairs
MaxPairLen == 4

\* note-ons, note-offs and velocity-0 note-ons of one pitch at the tick of
\* the event before or later, and a note of another channel
PairAlphabet ==
    { Message("note_on", 0, 60, 80, 0),  Message("note_on", 0, 60, 90, 240),
      Message("note_off", 0, 60, 0, 0),  Message("note_off", 0, 60, 0, 240),
      Message("note_on", 0, 60, 0, 240),
      Message("note_on", 1, 62, 70, 0),  Message("note_off", 1, 62, 0, 120) }

\* extract_note_pairs(track) for every track of up to MaxPairLen such
\* messages, with orphan note-offs and unclosed note-ons
PairCalls ==
    {Call("extract_note_pairs", <<t>>) :
        t \in UNION {[1..n -> PairAlphabet] : n \in 1..MaxPairLen}}

\* the notes handed to rebuild_track_from_pairs: a note of no duration,
\* notes of one channel and pitch that overlap, lie one inside the other or
\* follow each other, a note of another channel and pitch
RoundNotes ==
    << Note(60, 0, 80, 0, 480),   Note(60, 0, 70, 0, 0),
       Note(60, 0, 90, 120, 360), Note(60, 0, 80, 240, 720),
       Note(60, 0, 80, 480, 960), Note(64, 1, 80, 0, 480) >>

\* rebuild_track_from_pairs(notes, non_notes) for up to MaxNotes notes of
\* RoundNotes and no, one or two non-note events
RebuildCalls ==
    LET Picks(n) == {p \in [1..n -> 1..Len(RoundNotes)] :
                        \A i \in 1..(n - 1) : p[i] < p[i + 1]}
        notes(p) == [i \in 1..Len(p) |-> RoundNotes[p[i]]]
        non_notes == { <<>>, << <<0, MetaMessage("track_name", 0)>> >>,
                       << <<0, ControlChange(0, 7, 0)>>, <<960, EOT>> >> }
    IN  {Call("rebuild_track_from_pairs", <<notes(p), nn>>) :
            p \in UNION {Picks(n) : n \in 1..MaxNotes}, nn \in non_notes}

\* Quantizer(config).process(track, ticks_per_beat, time_sig) with quantize
\* on: tracks of one or two notes around the bar lines, at two resolutions,
\* in three time signatures and on three grids.  100 ticks per beat on the
\* thirtysecond grid is a grid of 12.5 ticks; a 3/8 bar is one and a half
\* quarter grid units
QuantizeOnsets == {0, 95, 230, 470, 700}

QuantizeDurations == {0, 4, 60, 300}

QuantizeTracks ==
    LET one(on, dur) == << Message("note_on", 0, 60, 80, on),
                           Message("note_off", 0, 60, 0, dur) >>
        two(gap, dur) == << Message("note_on", 0, 64, 70, gap),
                            Message("note_off", 0, 64, 0, dur) >>
        ones == {one(on, dur) : on \in QuantizeOnsets, dur \in QuantizeDurations}
        twos == {two(gap, dur) : gap \in {0, 95}, dur \in {4, 300}}
    IN  {t \o <<EOT>> : t \in ones}
            \cup {t \o u \o <<EOT>> : t \in ones, u \in twos}

QuantizeCalls ==
    {Call("Quantizer", <<t, tpb, time_sig, grid>>) :
        t \in QuantizeTracks, tpb \in {100, PPQ},
        time_sig \in {<<4, 4>>, <<1, 4>>, <<3, 8>>},
        grid \in {"quarter", "eighth", "thirtysecond"}}

CallsInit ==
    /\ midi_file = File(0, <<ScenarioTrack>>)
    /\ config = DEFAULT_CONFIG
    /\ output = File(0, <<>>)
    /\ track_idx = 0
    /\ pc = "idle"
    /\ result = <<>>
    /\ before = <<>>
    /\ track_config = DEFAULT_CONFIG
    /\ steps = <<>>
    /\ returned = <<>>
    /\ call \in SnapCalls \cup PrimaryCalls \cup PairCalls \cup RebuildCalls
                 \cup QuantizeCalls
    /\ TunerIdle

\* the called function runs and returns its value
Return(fn, value) ==
    /\ call.pc = "call"
    /\ call.fn = fn
    /\ call' = [call EXCEPT !.value = value, !.pc = "return"]
    /\ UNCHANGED <<midi_file, config, output, track_idx, pc, result, before,
                   track_config, steps, returned, tunerVars>>

SnapReturn ==
    Return("_snap_to_grid", _snap_to_grid(call.args[1], PPQ, call.args[2]))

PrimaryReturn ==
    Return("_find_primary_channel", _find_primary_channel(call.args[1]))

PairReturn ==
    Return("extract_note_pairs", extract_note_pairs(call.args[1]))

RebuildReturn ==
    Return("rebuild_track_from_pairs",
           rebuild_track_from_pairs(call.args[1], call.args[2], -1))

QuantizeReturn ==
    Return("Quantizer",
           Quantizer([quantize |-> TRUE, quantize_grid |-> call.args[4]],
                     call.args[1], call.args[2], call.args[3]))

\* the next stage reads the notes of the rebuilt track
ReadBack ==
    /\ call.pc = "return"
    /\ call.fn = "rebuild_track_from_pairs"
    /\ call' = [fn |-> "extract_note_pairs", args |-> <<call.value>>,
                value |-> extract_note_pairs(call.value), pc |-> "return",
                from |-> call.args]
    /\ UNCHANGED <<midi_file, config, output, track_idx, pc, result, before,
                   track_config, steps, returned, tunerVars>>

CallsNext ==
    \/ SnapReturn
    \/ PrimaryReturn
    \/ PairReturn
    \/ RebuildReturn
    \/ QuantizeReturn
    \/ ReadBack

SpecCalls == CallsInit /\ [][CallsNext]_vars

\* ------------------------------------------------------------------------
\* Properties of the pipeline
\* ------------------------------------------------------------------------

MergeEnabled == Get(Get(config, "merge_tracks", <<>>), "enabled", FALSE)

\* the four same-tick classes: 0 meta, 1 note-off (or note-on of velocity
\* 0), 2 other channel event, 3 note-on of velocity > 0
TickClass(msg) ==
    IF msg.type \in MetaTypes THEN 0
    ELSE IF msg.type = "note_off" \/ (msg.type = "note_on" /\ msg.velocity = 0) THEN 1
    ELSE IF msg.type = "note_on" THEN 3
    ELSE 2

AbsTick(track, i) == SumSeq([k \in 1..i |-> track[k].time])

\* ticks never decrease and, at one tick, the classes appear in order
TickOrdered(track) ==
    /\ \A i \in 1..Len(track) : track[i].time >= 0
    /\ \A i \in 1..Len(track) : \A j \in (i + 1)..Len(track) :
          AbsTick(track, i) = AbsTick(track, j)
              => TickClass(track[i]) <= TickClass(track[j])

\* the stages that hand their notes to rebuild_track_from_pairs
RebuildStages == {"PitchCluster", "VoiceMerger", "TripletRemover", "Quantizer",
                  "NoiseFilter", "SamePitchOverlapResolver", "FinalChordAlignment"}

\* result was just produced by rebuild_track_from_pairs: the stage that ran
\* last was enabled and found notes
JustRebuilt ==
    /\ pc \in {"VoiceMerger", "CCFilter", "Quantizer", "NoiseFilter",
               "SamePitchOverlapResolver", "FinalChordAlignment", "Strip"}
    /\ steps # <<>>
    /\ steps[Len(steps)].name \in RebuildStages
    /\ steps[Len(steps)].enabled
    /\ steps[Len(steps)].input_note_count > 0

Flattened == pc = "done" /\ MergeEnabled

AllButLast(s) == SubSeq(s, 1, Len(s) - 1)

\* C1 (as stated): every track produced by rebuild_track_from_pairs, and the
\* single track produced by the flattener, has its events in non-decreasing
\* tick and, at one tick, meta events before note-offs before other channel
\* events before note-ons.
C1_OrderEverywhere ==
    /\ JustRebuilt => TickOrdered(result)
    /\ Flattened => TickOrdered(output.tracks[1])

\* C1 (amended): the same, except that the flattener's track is ordered up to
\* the terminal end_of_track, which the flattener appends after every event.
C1_Order ==
    /\ JustRebuilt => TickOrdered(result)
    /\ Flattened => /\ TickOrdered(AllButLast(output.tracks[1]))
                    /\ output.tracks[1][Len(output.tracks[1])].type = "end_of_track"

HasSameTickOffOn(track) ==
    \E i, j \in 1..Len(track) :
        /\ i < j
        /\ AbsTick(track, i) = AbsTick(track, j)
        /\ TickClass(track[i]) = 1
        /\ TickClass(track[j]) = 3

\* a flattened output, built from rebuilt tracks, in which a note-off and a
\* note-on share a tick
C1_Witness ==
    /\ Flattened
    /\ \E k \in 1..Len(steps) : /\ steps[k].name \in RebuildStages
                                /\ steps[k].enabled
                                /\ steps[k].input_note_count > 0
    /\ HasSameTickOffOn(output.tracks[1])
    /\ \E i \in 1..Len(output.tracks[1]) : output.tracks[1][i].type = "set_tempo"

TempoCount(file) ==
    SumSeq([t \in 1..Len(file.tracks) |->
               Cardinality({i \in 1..Len(file.tracks[t]) :
                               file.tracks[t][i].type = "set_tempo"})])

\* the notes of a track as (onset, offset, pitch, channel), by pairing each
\* note-on with the next note-off of its channel and pitch
OutNotes(track) ==
    { <<AbsTick(track, i), AbsTick(track, j), track[i].note, track[i].channel>> :
        <<i, j>> \in { p \in (1..Len(track)) \X (1..Len(track)) :
            /\ p[1] < p[2]
            /\ track[p[1]].type = "note_on" /\ track[p[1]].velocity > 0
            /\ TickClass(track[p[2]]) = 1
            /\ track[p[2]].note = track[p[1]].note
            /\ track[p[2]].channel = track[p[1]].channel
            /\ \A k \in (p[1] + 1)..(p[2] - 1) :
                  ~(TickClass(track[k]) = 1 /\ track[k].note = track[p[1]].note
                    /\ track[k].channel = track[p[1]].channel) } }

ScenarioRun ==
    /\ midi_file = File(0, <<ScenarioTrack>>)
    /\ config = DEFAULT_CONFIG
    /\ pc = "done"

\* C2: at default configuration, the file whose single track holds three
\* set_tempo events of 500000 and the notes 60 and 62 of 480 ticks each comes
\* out with exactly one set_tempo, both notes at least min_duration_ticks
\* long, on one channel.
C2_Scenario ==
    ScenarioRun =>
        /\ TempoCount(output) = 1
        /\ LET ns == OutNotes(output.tracks[1])
           IN  /\ {n[3] : n \in ns} = {60, 62}
               /\ Cardinality(ns) = 2
               /\ \A n \in ns : n[2] - n[1] >= DEFAULT_CONFIG.min_duration_ticks
               /\ Cardinality({n[4] : n \in ns}) = 1

HasConductorMeta(track) ==
    \E i \in 1..Len(track) : track[i].type \in {"set_tempo", "time_signature"}

\* s without the elements equal to their predecessor
RECURSIVE Collapse(_)
Collapse(s) ==
    IF Len(s) <= 1 THEN s
    ELSE IF s[1] = s[2] THEN Collapse(Tail(s))
    ELSE <<s[1]>> \o Collapse(Tail(s))

TempoValues(track) ==
    LET ts == SelectSeq(track, LAMBDA m : m.type = "set_tempo")
    IN  [i \in 1..Len(ts) |-> ts[i].tempo]

TimeSignatures(track) ==
    LET ts == SelectSeq(to_absolute_time(track), LAMBDA e : e[2].type = "time_signature")
    IN  [i \in 1..Len(ts) |-> <<ts[i][1], ts[i][2].numerator, ts[i][2].denominator>>]

DedupEnabled == Get(Get(config, "tempo_deduplicator", <<>>), "enabled", TRUE)

\* C3: without flattening, no output track whose input track has a note
\* carries a set_tempo or time_signature, whatever the configuration
\* (start_bar > 1 included); a track without notes keeps its time_signature
\* events and its deduplicated set_tempo events.
C3_ConductorMeta ==
    (pc # "done" \/ ~MergeEnabled) =>
        \A i \in 1..Len(output.tracks) :
            LET in == midi_file.tracks[i]
                out == output.tracks[i]
            IN  IF count_notes(in) > 0
                THEN ~HasConductorMeta(out)
                ELSE /\ TimeSignatures(out) = TimeSignatures(in)
                     /\ TempoValues(out) = IF DedupEnabled
                                           THEN Collapse(TempoValues(in))
                                           ELSE TempoValues(in)

\* a finished, unflattened run with start_bar = 2 in which a note-bearing
\* track had conductor meta on both sides of the split tick and a track
\* without notes had a repeated tempo
C3_Witness ==
    /\ pc = "done" /\ ~MergeEnabled
    /\ Get(config, "start_bar", 1) = 2
    /\ \E i \in 1..Len(midi_file.tracks) :
          LET in == midi_file.tracks[i]
          IN  /\ count_notes(in) > 0
              /\ \E a, b \in 1..Len(in) :
                    /\ in[a].type \in {"set_tempo", "time_signature"}
                    /\ in[b].type \in {"set_tempo", "time_signature"}
                    /\ AbsTick(in, a) < start_tick
                    /\ AbsTick(in, b) >= start_tick
    /\ \E i \in 1..Len(midi_file.tracks) :
          /\ count_notes(midi_file.tracks[i]) = 0
          /\ Len(TempoValues(midi_file.tracks[i])) > Len(TempoValues(output.tracks[i]))
          /\ TimeSignatures(output.tracks[i]) # <<>>

\* the set_tempo before position i of the track, 0 if there is none
PrevTempo(track, i) ==
    LET before_i == {k \in 1..(i - 1) : track[k].type = "set_tempo"}
    IN  IF before_i = {} THEN 0
        ELSE CHOOSE k \in before_i : \A l \in before_i : l <= k

\* a set_tempo repeats the value of the most recently kept set_tempo exactly
\* when it repeats the value of the set_tempo before it
Redundant(track, i) ==
    /\ track[i].type = "set_tempo"
    /\ PrevTempo(track, i) # 0
    /\ track[PrevTempo(track, i)].tempo = track[i].tempo

AbsEvents(track) ==
    [i \in 1..Len(track) |-> <<AbsTick(track, i), [track[i] EXCEPT !.time = 0]>>]

KeptEvents(track) ==
    LET idx == {i \in 1..Len(track) : ~Redundant(track, i)}
        nth(p) == CHOOSE i \in idx : Cardinality({j \in idx : j < i}) = p - 1
    IN  [p \in 1..Cardinality(idx) |-> AbsEvents(track)[nth(p)]]

\* C4: the enabled tempo deduplicator removes a set_tempo exactly when its
\* value equals that of the most recently kept set_tempo of the track; every
\* other event keeps its absolute tick and its relative order.
C4_TempoDedup ==
    (pc = "Dispatch" /\ DedupEnabled) => AbsEvents(result) = KeptEvents(CurrentTrack)

\* the deduplicator has dropped a repeated tempo that carried a delta and
\* kept a later tempo of another value
C4_Witness ==
    /\ pc = "Dispatch" /\ DedupEnabled
    /\ \E i, j \in 1..Len(CurrentTrack) :
          /\ i < j
          /\ Redundant(CurrentTrack, i) /\ CurrentTrack[i].time > 0
          /\ CurrentTrack[j].type = "set_tempo" /\ ~Redundant(CurrentTrack, j)
    /\ Len(result) = Len(CurrentTrack) - 1

\* ------------------------------------------------------------------------
\* Properties of the web layer and the tuner
\* ------------------------------------------------------------------------

\* a worker thread that has not yet written its terminal status and released
\* the lock
Tuning(w) == workers[w].pc \notin {"report", "exit"}

TuningWorkers == {w \in DOMAIN workers : Tuning(w)}

Running(st) == st # 0 /\ heap[st].status = "running"

\* C5: at most one tuning worker runs for the session at a time; a start
\* request answered while the entry's status is running gets 409 and leaves
\* the registry, its entry and the workers unchanged; a start request is
\* accepted (a worker is started, the answer is 200) only when there is no
\* entry or its status is done or error.
C5_SingleWorker ==
    [][ /\ Cardinality(TuningWorkers') <= 1
        /\ (Running(registry) /\ http' # http)
              => /\ http' = 409
                 /\ UNCHANGED <<registry, heap, workers>>
        /\ Len(workers') > Len(workers)
              => /\ registry = 0 \/ heap[registry].status \in {"done", "error"}
                 /\ http' = 200
      ]_vars

\* a second run was accepted after the first one ended, and a start request
\* made while it is tuning was answered 409
C5_Witness ==
    /\ Len(workers) = 2
    /\ ~Tuning(1) /\ Tuning(2)
    /\ workers[2].trials # <<>>
    /\ http = 409

\* a status response that reports an entry has been sent
Answered == poll.pc = "idle" /\ poll.resp.status \notin {"", "idle"}

\* the greatest score of a list of trial records, NEG_INF for none
MaxScore(trials) ==
    IF trials = <<>> THEN NEG_INF
    ELSE CHOOSE m \in {trials[i].score : i \in 1..Len(trials)} :
             \A i \in 1..Len(trials) : trials[i].score <= m

\* C6: in every status response, current_trial is the number of entries of
\* the returned trials list and best_score is the greatest score among them.
C6_Snapshot ==
    Answered => /\ poll.resp.current_trial = Len(poll.resp.trials)
                /\ poll.resp.best_score = MaxScore(poll.resp.trials)

\* the stagnation rule over a score history: each of the last
\* stagnation_rounds scores differs by less than stagnation_pct percent from
\* the score stagnation_rounds + 1 back, which is not 0
StagnationRule(h) ==
    /\ Len(h) > stagnation_rounds
    /\ h[Len(h) - stagnation_rounds] # 0
    /\ \A k \in 0..(stagnation_rounds - 1) :
          1000 * Abs(h[Len(h) - k] - h[Len(h) - stagnation_rounds])
              < stagnation_pct_tenths * Abs(h[Len(h) - stagnation_rounds])

\* the decline rule: each of the last decline_rounds steps drops by more than
\* decline_pct percent of the score it starts from
DeclineRule(h) ==
    /\ Len(h) > decline_rounds
    /\ \A k \in 0..(decline_rounds - 1) :
          LET prior == h[Len(h) - k - 1]
              next == h[Len(h) - k]
          IN  /\ prior # 0
              /\ 1000 * (prior - next) > decline_pct_tenths * Abs(prior)

StopRule(h) == StagnationRule(h) \/ DeclineRule(h)

\* the scores of the trials the study holds
Values(w) == [i \in 1..Len(workers[w].study) |-> workers[w].study[i].value]

\* study.optimize is over without a trial having raised
Finished(w) ==
    \/ workers[w].pc \in {"final", "done", "done_rest", "report", "returned"}
    \/ workers[w].error = "KeyError"

TrialRaised(w) == workers[w].web /\ workers[w].error = "pipeline failed"

\* C8: once the pipeline run of a trial has raised, the run takes only the
\* error path (no further trial, never status done); the trial records
\* appended before the failure stay in the run's entry; when the worker is
\* through, the entry has status error and the message; a status response
\* reporting that error returns those trial records.
C8_TrialError ==
    /\ \A w \in DOMAIN workers :
          TrialRaised(w) =>
              /\ workers[w].pc \in {"except", "except_error", "exit"}
              /\ Len(workers[w].study) = Len(workers[w].trials)
              /\ heap[w].status # "done"
              /\ heap[w].trials = workers[w].trials
              /\ workers[w].pc = "exit"
                    => heap[w].status = "error" /\ heap[w].error = "pipeline failed"
    /\ (Answered /\ poll.resp.status = "error" /\ TrialRaised(poll.st))
          => poll.resp.trials = workers[poll.st].trials

\* the second trial of a run raised after the first was recorded, the worker
\* is through, and a status response has reported the error with the record
C8_Witness ==
    /\ Len(workers) >= 1
    /\ TrialRaised(1)
    /\ workers[1].pc = "exit"
    /\ Len(heap[1].trials) = 1
    /\ Answered /\ poll.st = 1
    /\ poll.resp.status = "error"
    /\ poll.resp.error = "pipeline failed"
    /\ Len(poll.resp.trials) = 1

\* C9: whenever study.optimize ends without a trial having raised,
\* optimize() returns; best_score is the greatest score of the recorded
\* trials and best_params is the parameter map of a recorded trial with that
\* score, holding every tuned parameter name.
C9_BestResult ==
    \A w \in DOMAIN workers :
        (~workers[w].web /\ workers[w].pc \in {"returned", "raised"}
            /\ workers[w].error # "pipeline failed")
        => /\ workers[w].pc = "returned"
           /\ workers[w].result.best_score = MaxScore(workers[w].trials)
           /\ \E i \in 1..Len(workers[w].trials) :
                 /\ workers[w].trials[i].score = workers[w].result.best_score
                 /\ workers[w].trials[i].params = workers[w].result.best_params
           /\ ALLOWED_PARAMS \subseteq DOMAIN workers[w].result.best_params

\* C10: the service is called at most max_calls times over the requests made
\* to one advisor, failed calls included; a request made once the cap is
\* reached returns no suggestion and does not call the service.
C10_CallCap ==
    /\ \A w \in DOMAIN workers :
          workers[w].llm.service_calls <= workers[w].llm.max_calls
    /\ (request.made /\ request.at_cap)
          => ~request.called /\ request.result = <<>>

\* the run used up the cap of its advisor, applied a suggestion to a trial,
\* and a request made afterwards got nothing
C10_Witness ==
    /\ workers[1].llm.enabled
    /\ workers[1].llm.max_calls = MaxCalls
    /\ workers[1].llm.service_calls = workers[1].llm.max_calls
    /\ \E i \in 1..Len(workers[1].study) : workers[1].study[i].params = <<>>
    /\ request.made /\ request.at_cap
    /\ ~request.called

\* the parameters a trial gets from the suggestion s: the suggested value for
\* a tuned name the suggestion holds, the fixed default for the others
FromSuggestion(s) ==
    [k \in ParamNames |-> IF k \in DOMAIN s THEN s[k] ELSE OverrideDefaults[k]]

\* the decisions the advisor of worker w recorded in the step
NewDecisions(w) ==
    SubSeq(workers'[w].llm.decisions, Len(workers[w].llm.decisions) + 1,
           Len(workers'[w].llm.decisions))

\* C11: a suggestion the service returns while a trial is being set up
\* determines the parameters of that trial and of no other: the trial run in
\* the step takes the suggested values of the allow-listed names only (its
\* parameter names are the tuned names, Optuna draws nothing for it); a trial
\* set up without a new suggestion runs with the parameters the sampler drew;
\* no suggestion is left pending after a trial.
C11_OneTrial ==
    [][ \A w \in DOMAIN workers :
          /\ workers'[w].llm_override = <<>>
          /\ Len(workers'[w].trials) = Len(workers[w].trials) + 1
                => LET tr == workers'[w].trials[Len(workers'[w].trials)]
                       drawn == workers'[w].study[Len(workers'[w].study)].params
                       got == SelectSeq(NewDecisions(w), LAMBDA d : d.parsed_ok)
                   IN  IF got # <<>>
                       THEN /\ Len(got) = 1
                            /\ DOMAIN got[1].suggested_changes \subseteq ALLOWED_PARAMS
                            /\ tr.params = FromSuggestion(got[1].suggested_changes)
                            /\ drawn = <<>>
                       ELSE /\ tr.params = drawn
                            /\ drawn = Sampled(tr.number)
      ]_vars

\* the service answered a stalled run twice: the trial after the first
\* suggestion ran with it, the next trial with what the sampler drew, and a
\* later trial with the second suggestion
C11_Witness ==
    /\ Len(workers) >= 1
    /\ \E i, j, k \in 1..Len(workers[1].trials) :
          /\ i < j /\ j < k
          /\ workers[1].study[i].params = <<>>
          /\ workers[1].study[j].params = Sampled(j - 1)
          /\ workers[1].trials[j].params = workers[1].study[j].params
          /\ workers[1].study[k].params = <<>>
          /\ workers[1].trials[i].params["min_duration"] = 100
          /\ "unknown_key" \notin DOMAIN workers[1].trials[i].params
    /\ Len(SelectSeq(workers[1].llm.decisions, LAMBDA d : d.parsed_ok)) = 2

\* ------------------------------------------------------------------------
\* Claims about the stages called one at a time (SpecStage)
\* ------------------------------------------------------------------------

\* the notes of the track a stage was called on, and of the track it returned
CallNotes == extract_note_pairs(CurrentTrack)
ResultNotes == extract_note_pairs(result)

Enabled(section) == Get(Get(config, section, <<>>), "enabled", TRUE)

\* the notes form one cluster around their first note in (onset, pitch)
\* order: one channel, every onset inside the window of the seed, every
\* pitch within the threshold of the seed's
WholeCluster(notes) ==
    /\ Len(notes) > 1
    /\ LET seed == SortOnsetPitch(notes)[1]
       IN  \A i \in 1..Len(notes) :
              /\ notes[i].channel = seed.channel
              /\ notes[i].onset <= seed.onset + config.pitch_cluster.time_window_ticks
              /\ Abs(notes[i].pitch - seed.pitch) <= config.pitch_cluster.pitch_threshold

\* the lower-middle element of the sorted pitches
LowerMedian(notes) ==
    LET ps == SortByKey([i \in 1..Len(notes) |-> notes[i].pitch],
                        [i \in 1..Len(notes) |-> <<notes[i].pitch, 0>>])
    IN  ps[(Len(ps) + 1) \div 2]

\* the notes the stated rule allows as winner, for the median m
Winners(notes, m) ==
    LET all == Range(notes)
        loud == {n \in all : \A o \in all : o.velocity <= n.velocity}
        long == {n \in loud : \A o \in loud : o.offset - o.onset <= n.offset - n.onset}
    IN  {n \in long : \A o \in long : Abs(n.pitch - m) <= Abs(o.pitch - m)}

\* C12: called on a track whose notes form one cluster of more than one
\* note, the enabled pitch cluster collapser returns a track with exactly
\* one note, an unchanged note of the cluster: one of highest velocity, among
\* these of longest duration, among these of smallest distance to the median
\* pitch, the median being the lower-middle element of the sorted pitches.
C12_LowerMedianWinner ==
    (pc = "PitchCluster" /\ Enabled("pitch_cluster") /\ WholeCluster(CallNotes))
        => \E n \in Winners(CallNotes, LowerMedian(CallNotes)) : ResultNotes = <<n>>

\* how often the note n occurs in notes
Count(notes, n) == Cardinality({i \in 1..Len(notes) : notes[i] = n})

\* the note at index i has another note of its channel within the time
\* window in onset and within the pitch threshold in pitch
HasNeighbour(notes, i) ==
    \E j \in 1..Len(notes) :
        /\ j # i
        /\ notes[j].channel = notes[i].channel
        /\ Abs(notes[j].onset - notes[i].onset) <= config.pitch_cluster.time_window_ticks
        /\ Abs(notes[j].pitch - notes[i].pitch) <= config.pitch_cluster.pitch_threshold

\* C13: the enabled pitch cluster collapser outputs only unchanged input
\* notes; a note it drops has another note of its own channel within
\* time_window_ticks in onset and pitch_threshold semitones in pitch (notes of
\* other channels never count); a note with no such note is output unchanged.
C13_ChannelsApart ==
    (pc = "PitchCluster" /\ Enabled("pitch_cluster"))
        => /\ \A n \in Range(ResultNotes) : Count(ResultNotes, n) <= Count(CallNotes, n)
           /\ \A i \in 1..Len(CallNotes) :
                 Count(ResultNotes, CallNotes[i]) < Count(CallNotes, CallNotes[i])
                    => HasNeighbour(CallNotes, i)
           /\ \A i \in 1..Len(CallNotes) :
                 ~HasNeighbour(CallNotes, i) => Count(ResultNotes, CallNotes[i]) >= 1

\* two notes of different channels at the same tick and pitch are both kept,
\* while a third, near the first on its channel, is dropped
C13_Witness ==
    /\ pc = "PitchCluster" /\ Enabled("pitch_cluster")
    /\ Len(CallNotes) = 3 /\ Len(ResultNotes) = 2
    /\ ResultNotes[1].channel # ResultNotes[2].channel
    /\ ResultNotes[1].onset = ResultNotes[2].onset
    /\ ResultNotes[1].pitch = ResultNotes[2].pitch

\* the (channel, pitch) pairs of the notes, and the notes of one pair
Keys(notes) == {<<notes[i].channel, notes[i].pitch>> : i \in 1..Len(notes)}
Group(notes, k) == SelectSeq(notes, LAMBDA n : <<n.channel, n.pitch>> = k)

Overlap(a, b) == a.onset < b.offset /\ b.onset < a.offset

\* the note of an overlapping pair that the stated rule removes: the shorter,
\* at equal duration the quieter, at equal duration and velocity the later
Loser(a, b) ==
    LET dur(n) == n.offset - n.onset
    IN  IF dur(a) # dur(b) THEN (IF dur(a) < dur(b) THEN a ELSE b)
        ELSE IF a.velocity # b.velocity THEN (IF a.velocity < b.velocity THEN a ELSE b)
        ELSE IF a.onset <= b.onset THEN b ELSE a

\* the notes of one channel and pitch taken in order of onset (then offset),
\* each one that starts before the last kept one ends compared with it and
\* the loser of the two removed
KeptByRule(g) ==
    LET sorted == SortByKey(g, [i \in 1..Len(g) |-> <<g[i].onset, g[i].offset>>])
        kept[i \in 0..Len(g)] ==
            IF i = 0 THEN <<>>
            ELSE LET p == kept[i - 1]
                     note == sorted[i]
                 IN  IF p # <<>> /\ note.onset < p[Len(p)].offset
                     THEN IF Loser(p[Len(p)], note) = note THEN p
                          ELSE [p EXCEPT ![Len(p)] = note]
                     ELSE Append(p, note)
    IN  kept[Len(g)]

\* C14: when the track holds exactly two notes of a channel and pitch and
\* they overlap, the enabled same-pitch overlap resolver returns exactly one
\* of the two for that channel and pitch: it removed the shorter one, at
\* equal duration the quieter one, at equal duration and velocity the
\* later-starting one, and the note it kept has its onset, offset and
\* velocity unchanged.  With more notes of a channel and pitch, each note
\* that starts before the kept one ends is compared with it in the same way
\* and exactly one of the two is removed.
C14_OneRemoved ==
    (pc = "SamePitchOverlapResolver" /\ Enabled("same_pitch_overlap_resolver"))
        => \A k \in Keys(CallNotes) :
              LET g == Group(CallNotes, k)
              IN  /\ (Len(g) = 2 /\ Overlap(g[1], g[2]))
                        => \E i \in 1..2 : /\ g[i] = Loser(g[1], g[2])
                                           /\ Group(ResultNotes, k) = <<g[3 - i]>>
                  /\ (\E i, j \in 1..Len(g) : i # j /\ Overlap(g[i], g[j]))
                        => /\ Len(Group(ResultNotes, k)) = Len(KeptByRule(g))
                           /\ \A n \in Range(KeptByRule(g)) :
                                 n.offset > n.onset
                                    => n \in Range(Group(ResultNotes, k))

\* the three tie-break levels each decided a call: a shorter note removed, a
\* quieter note of equal duration removed, the later of two notes of equal
\* duration and velocity removed
C14_WitnessShorter ==
    /\ pc = "SamePitchOverlapResolver" /\ Enabled("same_pitch_overlap_resolver")
    /\ \E k \in Keys(CallNotes) :
          LET g == Group(CallNotes, k)
          IN  /\ Len(g) = 2 /\ Overlap(g[1], g[2])
              /\ g[1].offset - g[1].onset < g[2].offset - g[2].onset
              /\ g[1].velocity > g[2].velocity
              /\ Group(ResultNotes, k) = <<g[2]>>

C14_WitnessQuieter ==
    /\ pc = "SamePitchOverlapResolver" /\ Enabled("same_pitch_overlap_resolver")
    /\ \E k \in Keys(CallNotes) :
          LET g == Group(CallNotes, k)
          IN  /\ Len(g) = 2 /\ Overlap(g[1], g[2])
              /\ g[1].offset - g[1].onset = g[2].offset - g[2].onset
              /\ g[1].velocity < g[2].velocity
              /\ Group(ResultNotes, k) = <<g[2]>>

C14_WitnessLater ==
    /\ pc = "SamePitchOverlapResolver" /\ Enabled("same_pitch_overlap_resolver")
    /\ \E k \in Keys(CallNotes) :
          LET g == Group(CallNotes, k)
          IN  /\ Len(g) = 2 /\ Overlap(g[1], g[2])
              /\ g[1].offset - g[1].onset = g[2].offset - g[2].onset
              /\ g[1].velocity = g[2].velocity
              /\ g[1].onset < g[2].onset
              /\ Group(ResultNotes, k) = <<g[1]>>

C14_Witness ==
    /\ pc = "SamePitchOverlapResolver" /\ Enabled("same_pitch_overlap_resolver")
    /\ \E k \in Keys(CallNotes) :
          LET g == Group(CallNotes, k)
          IN  /\ Len(g) = 2 /\ Overlap(g[1], g[2])
              /\ Len(CallNotes) = 3 /\ Len(ResultNotes) = 2
              /\ g[2] = Loser(g[1], g[2])
              /\ g[2].onset > g[1].onset

\* C15: in the track the enabled same-pitch overlap resolver returns, the
\* notes of each channel and pitch, ordered by onset, do not overlap (each
\* starts at or after the offset of the one before it), and every note is an
\* unmodified note of the track it was called on.
C15_OneActiveNote ==
    (pc = "SamePitchOverlapResolver" /\ Enabled("same_pitch_overlap_resolver"))
        => /\ \A k \in Keys(ResultNotes) :
                 LET g == Group(ResultNotes, k)
                     o == SortByKey(g, [i \in 1..Len(g) |-> <<g[i].onset, g[i].offset>>])
                 IN  \A i \in 1..(Len(o) - 1) : o[i + 1].onset >= o[i].offset
           /\ \A n \in Range(ResultNotes) : Count(ResultNotes, n) <= Count(CallNotes, n)

\* a call on three overlapping notes of one channel and pitch that kept one
C15_Witness ==
    /\ pc = "SamePitchOverlapResolver" /\ Enabled("same_pitch_overlap_resolver")
    /\ \E k \in Keys(CallNotes) :
          LET g == Group(CallNotes, k)
          IN  /\ Len(g) = 3
              /\ Overlap(g[1], g[2]) /\ Overlap(g[2], g[3])
              /\ Len(Group(ResultNotes, k)) = 1

\* every note of the track the stage was called on lasts at least one tick
LastingNotes == \A i \in 1..Len(CallNotes) : CallNotes[i].offset > CallNotes[i].onset

\* the property of C13 holds of every call on a track of lasting notes
C13_OfLastingNotes == LastingNotes => C13_ChannelsApart

\* the property of C14 holds of every call on a track of lasting notes
C14_OfLastingNotes == LastingNotes => C14_OneRemoved

\* the property of C15 holds of every call on a track of lasting notes
C15_OfLastingNotes == LastingNotes => C15_OneActiveNote

\* the grid size in ticks and the length of a bar of the call
GridTicks ==
    LET g == GRID_DIVISORS(Get(config, "quantize_grid", "eighth"))
    IN  PyRound(midi_file.ticks_per_beat * g[1], g[2])
BarTicks == calculate_bar_ticks(midi_file.ticks_per_beat, FileTimeSig(midi_file))

\* the end tick of the bar that holds the tick
BarEnd(tick) == ((tick \div BarTicks) + 1) * BarTicks

FileNotes(f) == Flatten([t \in 1..Len(f.tracks) |-> extract_note_pairs(f.tracks[t])])

\* C17: flattening preserves every note: the notes that note pairing reads
\* from the merged single track are the notes it reads from the input tracks,
\* each with its onset, offset, pitch, velocity and channel and as many times
\* as it occurs, so the number of notes is the same.
C17_NotesPreserved ==
    (pc = "MergeTracksToSingleTrack" /\ Enabled("merge_tracks")
        /\ config.merge_tracks.enabled)
        => /\ Len(output.tracks) = 1
           /\ \A n \in Range(FileNotes(midi_file)) \cup Range(FileNotes(output)) :
                 Count(FileNotes(output), n) = Count(FileNotes(midi_file), n)

\* no two tracks of the input file hold notes of the same channel and pitch
TracksApart ==
    \A t, u \in 1..Len(midi_file.tracks) :
        t # u => Keys(extract_note_pairs(midi_file.tracks[t]))
                    \cap Keys(extract_note_pairs(midi_file.tracks[u])) = {}

\* the property of C17 holds of every file whose notes all last at least one
\* tick and whose tracks share no channel and pitch
C17_OfLastingNotes ==
    ((\A n \in Range(FileNotes(midi_file)) : n.offset > n.onset) /\ TracksApart)
        => C17_NotesPreserved

\* two tracks with notes, on different channels, merged into one track that
\* holds the notes of both
C17_Witness ==
    /\ pc = "MergeTracksToSingleTrack" /\ config.merge_tracks.enabled
    /\ Len(midi_file.tracks) = 2
    /\ \A t \in 1..2 : extract_note_pairs(midi_file.tracks[t]) # <<>>
    /\ \E n \in Range(FileNotes(midi_file)) : n.channel = 1
    /\ \E n \in Range(FileNotes(midi_file)) : n.channel = 0
    /\ Len(FileNotes(output)) = Len(FileNotes(midi_file))
    /\ Len(output.tracks) = 1

\* ------------------------------------------------------------------------
\* Claims about successive process() calls (SpecAgain)
\* ------------------------------------------------------------------------

StageEnabled ==
    CASE pc = "TempoDeduplicator" -> Enabled("tempo_deduplicator")
      [] pc = "PitchCluster" -> Enabled("pitch_cluster")
      [] pc = "VoiceMerger" -> Get(config, "merge_voices", TRUE)
      [] pc = "CCFilter" -> Get(config, "remove_cc", TRUE)
      [] pc = "TripletRemover" -> Get(config, "remove_triplets", TRUE)
      [] pc = "Quantizer" -> Get(config, "quantize", TRUE)
      [] pc = "NoiseFilter" -> Get(config, "filter_noise", TRUE)
      [] pc = "SamePitchOverlapResolver" -> Enabled("same_pitch_overlap_resolver")
      [] pc = "MergeTracksToSingleTrack" ->
            Get(Get(config, "merge_tracks", <<>>), "enabled", FALSE)
      [] OTHER -> TRUE

\* C19: each of the nine stages called with its enable flag false returns
\* what it was given: a track stage the track, with the same events in the
\* same order at the same delta times, the flattener the file.
C19_DisabledUnchanged ==
    (pc # "call" /\ ~StageEnabled)
        => IF pc = "MergeTracksToSingleTrack" THEN output = midi_file
           ELSE result = CurrentTrack

\* the disabled noise filter was called on a track that the enabled one
\* would have changed
C19_Witness ==
    /\ pc = "NoiseFilter" /\ ~StageEnabled
    /\ result = CurrentTrack
    /\ NoiseFilter(DEFAULT_CONFIG, CurrentTrack) # CurrentTrack
    /\ Len(CallNotes) = 3

\* ------------------------------------------------------------------------
\* Claims about process() with a start bar beyond the first (SpecBars)
\* ------------------------------------------------------------------------

\* the events of a track, each with its absolute tick and its delta time
\* cleared
Events(track) ==
    LET abs == to_absolute_time(track)
    IN  [i \in 1..Len(track) |-> <<abs[i][1], CopyTime(abs[i][2], 0)>>]

\* process() is about to re-attach the halves of a track it split, and the
\* stages have left the second half as the split made it
SplitUntouched ==
    /\ pc = "Strip"
    /\ start_tick > 0
    /\ result = _split_track_at_tick(TempoDeduplicator(config, CurrentTrack),
                                     start_tick)[2]

\* what re-attaching is to keep: the events before the split tick, the
\* events at or after it as often as in the input, both at their absolute
\* ticks (set_tempo and time_signature, which are stripped, aside), and no
\* more track_name, instrument_name and key_signature events than the input
SplitMergeKeeps ==
    LET in == Events(CurrentTrack)
        out == Events(output'.tracks[track_idx + 1])
        kept(e) == e[2].type \notin CONDUCTOR_ONLY_META
    IN  /\ \A i \in 1..Len(in) :
              (in[i][1] < start_tick /\ kept(in[i]))
                 => Count(out, in[i]) >= Count(in, in[i])
        /\ \A i \in 1..Len(in) :
              (in[i][1] >= start_tick /\ kept(in[i]))
                 => Count(out, in[i]) = Count(in, in[i])
        /\ \A ty \in DuplicatedMeta :
              Cardinality({i \in 1..Len(out) : out[i][2].type = ty})
                 <= Cardinality({i \in 1..Len(in) : in[i][2].type = ty})

\* C20: with a start bar beyond the first, splitting a track at the start
\* tick and re-attaching the halves loses and moves nothing: every event
\* before the split tick is in the output track, unmodified, at its absolute
\* tick; every event at or after the split tick that no stage altered is in
\* the output track exactly as often as in the input at its absolute tick;
\* and the output holds no more track_name, instrument_name and
\* key_signature events than the input.
C20_SplitMerge ==
    [][SplitUntouched => SplitMergeKeeps]_vars

\* every track_name, instrument_name and key_signature event of the track
\* lies before the split tick
MetaLeads ==
    LET in == Events(CurrentTrack)
    IN  \A i \in 1..Len(in) : in[i][2].type \in DuplicatedMeta => in[i][1] < start_tick

\* the same on tracks whose track_name, instrument_name and key_signature
\* events all lie before the split tick
C20_OfLeadingMeta ==
    [][(SplitUntouched /\ MetaLeads) => SplitMergeKeeps]_vars

\* a track with a note on either side of the split tick has been split and
\* re-attached with its second half as the split made it
C20_Witness ==
    /\ start_tick > 0
    /\ Len(output.tracks) = 1
    /\ pc = "MergeTracks"
    /\ result = _split_track_at_tick(TempoDeduplicator(config, midi_file.tracks[1]),
                                     start_tick)[2]
    /\ LET in == Events(midi_file.tracks[1])
       IN  /\ \E i \in 1..Len(in) : in[i][2].type = "note_on" /\ in[i][1] < start_tick
           /\ \E i \in 1..Len(in) : in[i][2].type = "note_on" /\ in[i][1] >= start_tick

\* ------------------------------------------------------------------------
\* Claims about per-track overrides (SpecOverride)
\* ------------------------------------------------------------------------

\* the keys of the configuration that hold a nested dict
NestedKeys == {"tempo_deduplicator", "pitch_cluster", "same_pitch_overlap_resolver",
               "merge_tracks"}

\* the override of the track in hand, empty when it has none
TrackOverride ==
    IF track_idx \in DOMAIN config.track_overrides
    THEN config.track_overrides[track_idx] ELSE <<>>

\* the stage chain of a note-bearing track is running with the track's
\* configuration
InStages ==
    pc \in {"PitchCluster", "VoiceMerger", "CCFilter", "TripletRemover", "Quantizer",
            "NoiseFilter", "SamePitchOverlapResolver", "FinalChordAlignment", "Strip"}

\* the global configuration with the override o applied, nested dicts merged
\* entry by entry
MergedOver(cfg, o) ==
    [k \in DOMAIN cfg \cup DOMAIN o |->
        IF k \notin DOMAIN o THEN cfg[k]
        ELSE IF k \in NestedKeys /\ k \in DOMAIN cfg
        THEN [n \in DOMAIN cfg[k] \cup DOMAIN o[k] |->
                 IF n \in DOMAIN o[k] THEN o[k][n] ELSE cfg[k][n]]
        ELSE o[k]]

\* C21: the configuration used for a track is the global configuration with
\* the track's override applied: top-level keys of the override replace the
\* global values, the entries of an overridden nested dict are merged over
\* the global nested dict (nested keys absent from the override keep their
\* global values), a track without an override uses the global
\* configuration, and the global configuration is not modified.
C21_NestedMerge ==
    [][/\ config' = config
       /\ InStages' => track_config' = MergedOver(config, TrackOverride)]_vars

\* the same with an overridden nested dict taken as the override gives it
C21_TopLevelReplace ==
    [][/\ config' = config
       /\ InStages' => /\ DOMAIN track_config' = DOMAIN config \cup DOMAIN TrackOverride
                       /\ \A k \in DOMAIN track_config' :
                             track_config'[k] = IF k \in DOMAIN TrackOverride
                                                THEN TrackOverride[k] ELSE config[k]]_vars

\* a track runs under an override of top-level keys while the other track of
\* the file has run under the global configuration
C21_Witness ==
    /\ InStages
    /\ track_idx = 1
    /\ TrackOverride # <<>>
    /\ track_config.quantize = FALSE
    /\ config.quantize = TRUE
    /\ Len(output.tracks) = 1

\* ------------------------------------------------------------------------
\* Claims about the stage chain of process() (Spec)
\* ------------------------------------------------------------------------

\* the names of the telemetry steps of a note-bearing track, in order
StageOrder ==
    <<"PitchCluster", "VoiceMerger", "CCFilter", "TripletRemover", "Quantizer",
      "NoiseFilter", "SamePitchOverlapResolver", "FinalChordAlignment">>

\* how many stages the track in hand runs through
StageCount == IF Get(track_config, "merge_voices", TRUE) THEN 8 ELSE 7

\* the telemetry steps of the track in hand once its last stage has run
OwnSteps == SubSeq(steps, Len(steps) - StageCount + 1, Len(steps))

\* the track the first stage was given
StageInput ==
    LET deduped == TempoDeduplicator(config, CurrentTrack)
    IN  IF start_tick > 0 THEN _split_track_at_tick(deduped, start_tick)[2] ELSE deduped

\* C22: for every note-bearing track the stages run in the order pitch
\* cluster, voice merger, CC filter, triplet remover, quantizer, noise
\* filter, same-pitch resolver, then the final chord alignment if voice
\* merging is enabled, each on the output of the one before: the telemetry
\* steps of the track are appended in that order, the first step's input
\* count is that of the track handed in, each step's input note count is the
\* preceding step's output note count, the last one's output count is that
\* of the track handed on, and no step reports more output notes than input
\* notes.
C22_StageOrder ==
    /\ pc = "Strip"
          => /\ Len(steps) >= StageCount
             /\ [i \in 1..StageCount |-> OwnSteps[i].name] = SubSeq(StageOrder, 1, StageCount)
             /\ OwnSteps[1].input_note_count = count_notes(StageInput)
             /\ \A i \in 2..StageCount :
                   OwnSteps[i].input_note_count = OwnSteps[i - 1].output_note_count
             /\ OwnSteps[StageCount].output_note_count = count_notes(result)
             /\ \A i \in 1..StageCount :
                   OwnSteps[i].output_note_count <= OwnSteps[i].input_note_count
    /\ (InStages /\ pc # "Strip")
          => \E i \in 1..8 :
                /\ pc = StageOrder[i]
                /\ Len(steps) >= i - 1
                /\ [j \in 1..(i - 1) |-> steps[Len(steps) - (i - 1) + j].name]
                      = SubSeq(StageOrder, 1, i - 1)

\* a track has run through all eight stages, one of which dropped a note
C22_Witness ==
    /\ pc = "Strip"
    /\ StageCount = 8
    /\ \E i \in 1..StageCount :
          OwnSteps[i].output_note_count < OwnSteps[i].input_note_count

\* ------------------------------------------------------------------------
\* Claims about the helper functions (SpecCalls)
\* ------------------------------------------------------------------------

\* _snap_to_grid has returned for the tick and the grid size
Snapped == call.pc = "return" /\ call.fn = "_snap_to_grid"

SnapTick == call.args[1]

SnapGrid == (PPQ * call.args[2][1]) \div call.args[2][2]

\* the tick lies exactly halfway between two grid multiples
Halfway == 2 * (SnapTick % SnapGrid) = SnapGrid

\* C23: the quantizer snaps an onset to the nearest multiple of the grid
\* size, and an onset exactly halfway between two grid multiples to the
\* later one, for every grid index.
C23_HalfUp ==
    Snapped
       => /\ call.value % SnapGrid = 0
          /\ 2 * Abs(call.value - SnapTick) <= SnapGrid
          /\ Halfway => call.value > SnapTick

\* the same with a halfway onset going to the grid multiple of even index
C23_HalfEven ==
    Snapped
       => /\ call.value % SnapGrid = 0
          /\ 2 * Abs(call.value - SnapTick) <= SnapGrid
          /\ Halfway => (call.value \div SnapGrid) % 2 = 0

\* a halfway onset above an odd grid index has been snapped, to the later
\* grid multiple
C23_Witness ==
    /\ Snapped
    /\ Halfway
    /\ (SnapTick \div SnapGrid) % 2 = 1
    /\ call.value > SnapTick

\* _find_primary_channel has returned for the track
PrimaryFound == call.pc = "return" /\ call.fn = "_find_primary_channel"

\* how many note-on events of velocity > 0 the track has on channel c
NoteOns(track, c) ==
    Cardinality({i \in 1..Len(track) : IsNoteOn(track[i]) /\ track[i].channel = c})

\* how many note_on and note_off messages that end a note it has on channel c
NoteEnds(track, c) ==
    Cardinality({i \in 1..Len(track) :
                    /\ track[i].type \in {"note_on", "note_off"}
                    /\ ~IsNoteOn(track[i])
                    /\ track[i].channel = c})

Channels == 0..15

\* C24: the primary channel chosen by the voice merger is the channel
\* carrying the most note-on events of velocity > 0, channel 0 if the track
\* has no notes.
C24_MostNoteOns ==
    PrimaryFound
       => LET track == call.args[1]
          IN  IF \A c \in Channels : NoteOns(track, c) = 0
              THEN call.value = 0
              ELSE \A c \in Channels : NoteOns(track, call.value) >= NoteOns(track, c)

\* how many note_on and note_off messages the track has on channel c up to
\* index n
Used(track, c, n) ==
    Cardinality({i \in 1..n : track[i].type \in {"note_on", "note_off"}
                                /\ track[i].channel = c})

\* C24 as the code has it: the primary channel is the channel carrying the
\* most note_on and note_off messages of any velocity, among several such
\* the one that occurs first in the track, channel 0 if the track has none;
\* on a track that has on every channel as many note-offs as note-ons it is
\* a channel carrying the most note-on events of velocity > 0.
C24_MostUsed ==
    PrimaryFound
       => LET track == call.args[1]
              n == Len(track)
              most == {c \in Channels : \A d \in Channels : Used(track, c, n) >= Used(track, d, n)}
          IN  /\ IF \A c \in Channels : Used(track, c, n) = 0
                 THEN call.value = 0
                 ELSE /\ call.value \in most
                      /\ \E i \in 1..n :
                            /\ Used(track, call.value, i) = 1
                            /\ \A c \in most : c # call.value => Used(track, c, i) = 0
              /\ (\A c \in Channels : NoteEnds(track, c) = NoteOns(track, c))
                    => C24_MostNoteOns

\* channel 1 has been chosen for a track with notes on channel 0 and more
\* notes on channel 1
C24_Witness ==
    /\ PrimaryFound
    /\ call.value = 1
    /\ NoteOns(call.args[1], 0) > 0
    /\ NoteOns(call.args[1], 1) > NoteOns(call.args[1], 0)
    /\ \A c \in Channels : NoteEnds(call.args[1], c) = NoteOns(call.args[1], c)

\* ------------------------------------------------------------------------
\* Claims about the tracks of the pipeline output
\* ------------------------------------------------------------------------

\* all notes of the track that share an onset tick have the same duration,
\* the notes as note pairing reads them
ChordsAligned(track) ==
    LET notes == extract_note_pairs(track)
    IN  \A i, j \in 1..Len(notes) :
           notes[i].onset = notes[j].onset
              => notes[i].offset - notes[i].onset = notes[j].offset - notes[j].onset

\* C25: with merge_voices enabled, in every track of the pipeline output all
\* notes that share an onset tick have the same duration, whatever the
\* settings of the other stages.
C25_ChordsAligned ==
    (pc = "done" /\ Get(config, "merge_voices", TRUE))
       => \A t \in 1..Len(output.tracks) : ChordsAligned(output.tracks[t])

\* the run starts at the first bar and leaves the tracks apart
WholeTracks == processing_start_tick(config, midi_file) = 0 /\ ~MergeEnabled

\* the same for runs that start at the first bar, leave the tracks apart
\* and have the voice merger merge overlapping notes of one pitch
C25_OfMergedOverlaps ==
    (WholeTracks /\ Get(config, "remove_overlaps", TRUE)) => C25_ChordsAligned

\* a chord of notes of different durations has come out aligned
C25_Witness ==
    /\ pc = "done"
    /\ WholeTracks
    /\ Get(config, "merge_voices", TRUE)
    /\ ~ChordsAligned(midi_file.tracks[1])
    /\ ChordsAligned(output.tracks[1])
    /\ count_notes(output.tracks[1]) > 1

\* extract_note_pairs has returned for the track
Paired == call.pc = "return" /\ call.fn = "extract_note_pairs"

\* the message ends a note of the key of the message at index i
EndsKeyOf(track, i, msg) ==
    /\ IsNoteOff(msg)
    /\ msg.channel = track[i].channel
    /\ msg.note = track[i].note

\* how many notes of the key of the message at index i are open after the
\* first n messages: a note-on opens one, a note-off closes one if one is
\* open
OpenAfter(track, i, n) ==
    LET open[m \in 0..n] ==
            IF m = 0 THEN 0
            ELSE IF IsNoteOn(track[m]) /\ track[m].channel = track[i].channel
                                       /\ track[m].note = track[i].note
            THEN open[m - 1] + 1
            ELSE IF EndsKeyOf(track, i, track[m]) THEN Max(0, open[m - 1] - 1)
            ELSE open[m - 1]
    IN  open[n]

\* how many note-ons of the key of the message at index i are among the
\* first n messages
OnsUpTo(track, i, n) ==
    Cardinality({m \in 1..n : IsNoteOn(track[m]) /\ track[m].channel = track[i].channel
                                                 /\ track[m].note = track[i].note})

\* the note of the note-on at index i: closed by the first later note-off of
\* its key that brings the number of closed notes of the key to the rank of
\* the note-on among the note-ons of the key, or at the tick of the last
\* event
NoteOfOn(track, i) ==
    LET rank == OnsUpTo(track, i, i)
        closes(j) == /\ EndsKeyOf(track, i, track[j])
                     /\ OpenAfter(track, i, j - 1) > 0
                     /\ OnsUpTo(track, i, j) - OpenAfter(track, i, j) = rank
        closing == {j \in (i + 1)..Len(track) : closes(j)}
        end == IF closing = {} THEN Len(track)
               ELSE CHOOSE j \in closing : \A k \in closing : j <= k
    IN  Note(track[i].note, track[i].channel, track[i].velocity,
             AbsTick(track, i), AbsTick(track, end))

\* C26: extract_note_pairs pairs each note-off (or velocity-0 note-on) with
\* the oldest still-open note-on of its channel and pitch, ignores a note-off
\* with no open note-on, closes every note-on left open at the tick of the
\* track's last event, and so returns exactly one note per note-on of
\* velocity > 0, each with offset >= onset, sorted by (onset, pitch).
C26_FifoPairs ==
    Paired
       => LET track == call.args[1]
              notes == call.value
              ons == {i \in 1..Len(track) : IsNoteOn(track[i])}
          IN  /\ Len(notes) = Cardinality(ons)
              /\ \A i \in ons :
                    Count(notes, NoteOfOn(track, i))
                       = Cardinality({j \in ons : NoteOfOn(track, j) = NoteOfOn(track, i)})
              /\ \A k \in 1..Len(notes) : notes[k].offset >= notes[k].onset
              /\ \A k \in 1..(Len(notes) - 1) :
                    \/ notes[k].onset < notes[k + 1].onset
                    \/ /\ notes[k].onset = notes[k + 1].onset
                       /\ notes[k].pitch <= notes[k + 1].pitch

\* a track with two open notes of one pitch, a note-off that closes the
\* older one, an orphan note-off and a note left open has been paired
C26_Witness ==
    /\ Paired
    /\ LET track == call.args[1]
       IN  /\ Len(track) = 4
           /\ IsNoteOn(track[1]) /\ IsNoteOn(track[2])
           /\ track[2].note = track[1].note /\ track[2].time > 0
           /\ IsNoteOff(track[3]) /\ track[3].note = track[1].note /\ track[3].time > 0
           /\ IsNoteOff(track[4]) /\ track[4].note # track[1].note
           /\ call.value = << Note(60, 0, track[1].velocity, 0, AbsTick(track, 3)),
                              Note(60, 0, track[2].velocity, AbsTick(track, 2),
                                   AbsTick(track, 4)) >>

\* the notes of a rebuilt track have been read back
ReadAgain == call.pc = "return" /\ call.fn = "extract_note_pairs" /\ call.from # <<>>

\* the two lists hold the same notes, each as often
SameNotes(a, b) ==
    /\ Len(a) = Len(b)
    /\ \A i \in 1..Len(a) : Count(a, a[i]) = Count(b, a[i])

\* C27: handing notes from one stage to the next is lossless: for any list
\* of note tuples with offset >= onset (notes of no duration and overlapping
\* notes of one channel and pitch included) and any non-note events,
\* extract_note_pairs of rebuild_track_from_pairs(notes, non_notes) is the
\* same multiset of notes.
C27_RoundTrip ==
    ReadAgain => SameNotes(call.from[1], call.value)

\* every note lasts at least one tick, and of two notes of one channel and
\* pitch the one that starts first does not end last
Unnested(notes) ==
    /\ \A i \in 1..Len(notes) : notes[i].offset > notes[i].onset
    /\ \A i, j \in 1..Len(notes) :
          (/\ notes[i].channel = notes[j].channel
           /\ notes[i].pitch = notes[j].pitch
           /\ notes[i].onset < notes[j].onset) => notes[i].offset <= notes[j].offset

\* the same for such lists of notes
C27_OfUnnested ==
    (ReadAgain /\ Unnested(call.from[1])) => SameNotes(call.from[1], call.value)

\* two overlapping notes of one channel and pitch, a note of another channel
\* and two non-note events have made the round trip
C27_Witness ==
    /\ ReadAgain
    /\ Len(call.from[1]) = 3
    /\ Len(call.from[2]) = 2
    /\ Unnested(call.from[1])
    /\ \E i, j \in 1..3 : /\ call.from[1][i].pitch = call.from[1][j].pitch
                          /\ call.from[1][i].onset < call.from[1][j].onset
                          /\ call.from[1][j].onset < call.from[1][i].offset
    /\ SameNotes(call.from[1], call.value)

\* ------------------------------------------------------------------------
\* Claims about hanging notes (SpecNotes)
\* ------------------------------------------------------------------------

\* every note-on of velocity > 0 of the track is closed by a later note-off
\* of its channel and pitch, note-offs closing the oldest open note first:
\* at the end of the track no note is open
NoHanging(track) ==
    \A i \in 1..Len(track) : IsNoteOn(track[i]) => OpenAfter(track, i, Len(track)) = 0

\* C28: if every note-on of the input has a matching later note-off, then in
\* every track of the pipeline output every note-on of velocity > 0 is
\* followed later in the track by a note-off of its channel and pitch that
\* closes it, for every configuration, start bars beyond the first with
\* notes sounding across the start tick included.
C28_NoHangingNotes ==
    (pc = "done" /\ \A t \in 1..Len(midi_file.tracks) : NoHanging(midi_file.tracks[t]))
       => \A t \in 1..Len(output.tracks) : NoHanging(output.tracks[t])

\* every note of every input track lasts at least one tick
InputNotesLast ==
    \A t \in 1..Len(midi_file.tracks) :
       LET notes == extract_note_pairs(midi_file.tracks[t])
       IN  \A i \in 1..Len(notes) : notes[i].offset > notes[i].onset

\* the same for runs from the first bar on notes that last
C28_OfLastingNotes ==
    (processing_start_tick(config, midi_file) = 0 /\ InputNotesLast) => C28_NoHangingNotes

\* a track without hanging notes has been rebuilt by the stages and has come
\* out without hanging notes
C28_Witness ==
    /\ pc = "done"
    /\ processing_start_tick(config, midi_file) = 0
    /\ InputNotesLast
    /\ NoHanging(midi_file.tracks[1])
    /\ count_notes(midi_file.tracks[1]) > 1
    /\ output.tracks[1] # midi_file.tracks[1]
    /\ count_notes(output.tracks[1]) > 1
    /\ NoHanging(output.tracks[1])

\* ------------------------------------------------------------------------
\* C29: the tuning entry of a session while the registry lock is free
\* ------------------------------------------------------------------------

\* the fields of an entry agree with its recorded trials
EntryConsistent(st) ==
    /\ st.status \in {"running", "done", "error"}
    /\ st.current_trial = Len(st.trials)
    /\ \A i \in 1..Len(st.trials) : st.trials[i].number = i - 1
    /\ st.best_score = MaxScore(st.trials)

\* a step that leaves the entry of the session in place: its recorded
\* trials stay as they are, at most one is appended, and a status of done or
\* error stays
EntryStep ==
    (registry # 0 /\ registry' = registry) =>
        LET old == heap[registry]
            new == heap'[registry]
        IN  /\ Len(new.trials) >= Len(old.trials)
            /\ SubSeq(new.trials, 1, Len(old.trials)) = old.trials
            /\ old.status \in {"done", "error"} => new.status = old.status

\* the entry is replaced only by an accepted start request, made while the
\* status of the old entry is not running
ReplacedByStart ==
    registry' # registry =>
        /\ http' = 200
        /\ registry = 0 \/ heap[registry].status \in {"done", "error"}
        /\ heap'[registry'] \in {NewEntry(n) : n \in 1..MaxWebTrials}

\* C29: whenever the registry lock is free the entry of the session has a
\* status of running, done or error, its current_trial is the number of
\* recorded trials, the recorded trials are numbered 0, 1, 2, ... in append
\* order and best_score is their greatest score (NEG_INF before the first);
\* no step changes or removes a recorded trial of the entry, and a status of
\* done or error is left only by an accepted start request replacing the
\* entry
C29_EntryInvariant ==
    /\ []((lock = 0 /\ registry # 0) => EntryConsistent(heap[registry]))
    /\ [][EntryStep /\ ReplacedByStart]_vars

\* the second run of a session is done with two recorded trials of
\* different scores, the lock free
C29_Witness ==
    /\ lock = 0
    /\ registry = 2
    /\ heap[1].status = "error"
    /\ heap[2].status = "done"
    /\ Len(heap[2].trials) = 2
    /\ heap[2].trials[1].score > heap[2].trials[2].score
    /\ heap[2].best_score = heap[2].trials[1].score

\* the entry between the statements of on_trial, the lock held
C29_MidUpdate ==
    /\ lock # 0
    /\ registry # 0
    /\ heap[registry].current_trial = Len(heap[registry].trials) + 1

\* ------------------------------------------------------------------------
\* C30: the notes the quantizer keeps
\* ------------------------------------------------------------------------

\* a call of the enabled quantizer has returned
Quantized == call.pc = "return" /\ call.fn = "Quantizer"

\* the bar length of the call
QuantizeBar == calculate_bar_ticks(call.args[2], call.args[3])

\* the grid of the call as the pair <<p, q>>: its size is
\* ticks_per_beat * p / q ticks
QuantizeGrid == GRID_DIVISORS(call.args[4])

\* the size the quantizer rounds it to
QuantizeGridInt == PyRound(call.args[2] * QuantizeGrid[1], QuantizeGrid[2])

\* the bar length is a whole multiple of ticks_per_beat / divisor
BarOfWholeGrids ==
    (QuantizeBar * QuantizeGrid[2]) % (call.args[2] * QuantizeGrid[1]) = 0

\* the returned track has as many notes as the track of the call
NoNoteDropped == count_notes(call.value) = count_notes(call.args[1])

\* C30: when the bar length is a whole multiple of the grid size in ticks,
\* ticks_per_beat / divisor, the track the enabled quantizer returns has
\* exactly as many notes as its input.
C30_NoNoteDropped == (Quantized /\ BarOfWholeGrids) => NoNoteDropped

\* the same when the bar length is a whole multiple of the rounded grid
\* size the quantizer snaps to
C30_OfRoundedGrid ==
    (Quantized /\ QuantizeBar % QuantizeGridInt = 0) => NoNoteDropped

\* a note that reaches over the bar line is cut and kept: the bar is a
\* whole number of rounded grid units
C30_Witness ==
    /\ Quantized
    /\ QuantizeBar % QuantizeGridInt = 0
    /\ NoNoteDropped
    /\ count_notes(call.value) = 2
    /\ \E i \in 1..Len(extract_note_pairs(call.args[1])) :
          LET note == extract_note_pairs(call.args[1])[i]
              g == QuantizeGrid
              on == _snap_to_grid(note.onset, call.args[2], g)
              dur == _quantize_duration(note.offset - note.onset, call.args[2], g)
          IN  on + dur > ((on \div QuantizeBar) + 1) * QuantizeBar

\* a note is dropped in a bar that is not a whole number of grid units
C30_DroppedOffGrid ==
    /\ Quantized
    /\ ~BarOfWholeGrids
    /\ ~NoNoteDropped

====
